---- MODULE Spec2Model ----
(***************************************************************************)
(* Model of the HR risk / attendance monitor (src/app.py and src/modules). *)
(*                                                                         *)
(* Column names are written in ASCII:                                      *)
(*   emp_id = shain-ID, date = hizuke, work_h = kinmu-jikan-h,             *)
(*   ot_h = zangyo-jikan-h, age = nenrei, tenure = kinzoku-nensu,          *)
(*   avg_ot_h = heikin-zangyo-jikan-h, pto_rate = yukyu-shutokuritsu,      *)
(*   rating = hyoka(1-5), rating_raw = hyoka, raises = shokyu-kaisu,       *)
(*   moves = busho-ido-kaisu.                                              *)
(* Numbers: hours and days are integers; z thresholds are in tenths;       *)
(* probabilities are in tenths of a percent (one-decimal rounding of the   *)
(* code); paid-leave rates are in hundredths.                              *)
(***************************************************************************)
EXTENDS Integers, Sequences, FiniteSets, TLC

VARIABLES
    attr_high,       \* sidebar slider attr_high (percent)
    attr_med,        \* sidebar slider attr_med (percent)
    hr_up,           \* tab1: the uploaded HR table, NoUpload when there is none
    hr_df,           \* tab1: hr_df of the script
    hrPc,            \* position of the script in tab1
    v,               \* result of validate_hr
    result_df,       \* first component of predict_attrition's result
    meta,            \* second component
    eff,             \* the pair _med, _high of tab1
    hr_report,       \* KPI counts and the inputs of build_pdf_attrition
    att_up,          \* tab2: the uploaded attendance table
    att_df,          \* tab2: the attendance table handed to the detector
    att_z_thr,       \* sidebar slider att_z (tenths)
    att_long_thr,    \* sidebar slider att_long
    att_streak_thr,  \* sidebar slider att_streak
    attPc,           \* position of the script in tab2, or of a direct call
    v2,              \* result of validate_attendance
    anomalies,       \* first component of detect_attendance_anomalies' result
    overview_fig,    \* second component (daily overtime totals)
    attError,        \* the ValueError raised by ensure_columns, if any
    att_report,      \* KPI counts of tab2
    calls,           \* the estimator, detector and report functions called so far
    use_anonymize,   \* sidebar checkbox use_anonymize
    api_key,         \* os.getenv("OPENAI_API_KEY"): "" when unset
    sug,             \* a call of suggest_column_mapping: arguments and result
    anon,            \* calls of anonymize_ids: arguments and results
    comment          \* a call of generate_comment: arguments and outcome

hrVars == <<attr_high, attr_med, hr_up, hr_df, hrPc, v, result_df, meta, eff,
            hr_report>>

attVars == <<att_up, att_df, att_z_thr, att_long_thr, att_streak_thr, attPc, v2,
             anomalies, overview_fig, attError, att_report>>

vars == <<attr_high, attr_med, hr_up, hr_df, hrPc, v, result_df, meta, eff,
          hr_report, att_up, att_df, att_z_thr, att_long_thr, att_streak_thr,
          attPc, v2, anomalies, overview_fig, attError, att_report, calls,
          use_anonymize, api_key, sug, anon, comment>>

auxVars == <<use_anonymize, api_key, sug, anon, comment>>

\* "nothing yet" for variables that hold sequences or strings, for variables
\* that hold records, and Python's None as the value of a cell
None == "None"
NoRec == [k |-> "none", n |-> 0]

\* no file in the uploader
NoUpload == [cols |-> {}, rows |-> <<>>, none |-> TRUE]

-----------------------------------------------------------------------------
(* Generic helpers *)

RECURSIVE SeqSum(_)
SeqSum(s) == IF s = <<>> THEN 0 ELSE Head(s) + SeqSum(Tail(s))

Range(s) == {s[i] : i \in DOMAIN s}

-----------------------------------------------------------------------------
(* modules/utils.py: ensure_columns *)

\* [c for c in required if c not in df.columns]
MissingColumns(columns, required) ==
    SelectSeq(required, LAMBDA c : c \notin columns)

\* the mutant: stops at the first missing column
ensure_columns_first(columns, required) ==
    LET missing == MissingColumns(columns, required)
    IN  IF missing = <<>> THEN <<>> ELSE <<missing[1]>>

\* the list carried by the ValueError; <<>> when nothing is raised
ensure_columns(columns, required) ==
    MissingColumns(columns, required)

-----------------------------------------------------------------------------
(* modules/attendance_check.py *)

REQ == <<"emp_id", "date", "work_h", "ot_h">>

\* A table is [cols |-> set of column names, rows |-> sequence of rows], a row
\* being a function from the table's columns to cells. The position of a row
\* in the input is its index label (RangeIndex of the reader). The copy the
\* detector works on holds the numbers of the cells, dates as day numbers.
Indexed(df) ==
    [i \in DOMAIN df.rows |->
        [idx |-> i, emp_id |-> df.rows[i]["emp_id"].n, date |-> df.rows[i]["date"].n,
         work_h |-> df.rows[i]["work_h"].n, ot_h |-> df.rows[i]["ot_h"].n]]

\* key order of sort_values(["emp_id","date"]); ties keep the input order
KeyBefore(a, b) ==
    \/ a.emp_id < b.emp_id
    \/ a.emp_id = b.emp_id /\ a.date < b.date
    \/ a.emp_id = b.emp_id /\ a.date = b.date /\ a.idx < b.idx

sort_values(rows) ==
    LET n == Len(rows)
        rank(i) == 1 + Cardinality({j \in 1..n : KeyBefore(rows[j], rows[i])})
    IN  [k \in 1..n |-> rows[CHOOSE i \in 1..n : rank(i) = k]]

\* positions (in the sorted table) of the rows of one employee
GroupOf(srt, e) == {k \in DOMAIN srt : srt[k].emp_id = e}

\* z > z_thresh for z = (x - m) / s, with m = sum/N and s = sqrt(Q)/N where
\* Q = N*sum(x^2) - sum(x)^2; d = N*x - sum(x), so z = d / sqrt(Q).
\* zt is z_thresh in tenths; the comparison is done on squares.
ZGreater(d, Q, zt) ==
    IF zt >= 0
    THEN d > 0 /\ 100 * d * d > zt * zt * Q
    ELSE d >= 0 \/ 100 * d * d < zt * zt * Q

\* the mutant: the s == 0 guard is dropped and the comparison is >=
z_anom_nonstrict(srt, k, zt) ==
    LET g  == GroupOf(srt, srt[k].emp_id)
        N  == Cardinality(g)
        xs == [j \in 1..Len(srt) |-> IF j \in g THEN srt[j].ot_h ELSE 0]
        S  == SeqSum(xs)
        SS == SeqSum([j \in 1..Len(srt) |-> xs[j] * xs[j]])
        Q  == N * SS - S * S
        d  == N * srt[k].ot_h - S
    IN  ZGreater(d, Q, zt) \/ 100 * d * d = zt * zt * Q

\* z_anom applied by groupby("emp_id")["ot_h"].transform: the flag of row k
z_anom(srt, k, zt) ==
    LET g  == GroupOf(srt, srt[k].emp_id)
        N  == Cardinality(g)
        xs == [j \in 1..Len(srt) |-> IF j \in g THEN srt[j].ot_h ELSE 0]
        S  == SeqSum(xs)
        SS == SeqSum([j \in 1..Len(srt) |-> xs[j] * xs[j]])
        Q  == N * SS - S * S
        d  == N * srt[k].ot_h - S
    IN  IF Q = 0 THEN FALSE ELSE ZGreater(d, Q, zt)

\* longest_streak applied per employee: the counter appended for row k.
\* prev is the previous row of the same employee, whatever its hours.
RECURSIVE longest_streak(_, _)
longest_streak(srt, k) ==
    LET r       == srt[k]
        hasPrev == k > 1 /\ srt[k - 1].emp_id = r.emp_id
        current == IF hasPrev THEN longest_streak(srt, k - 1) ELSE 0
        worked  == r.work_h > 0
    IN  IF worked /\ (~hasPrev \/ r.date - srt[k - 1].date <= 1) THEN current + 1
        ELSE IF worked THEN 1
        ELSE 0

\* the daily totals of overtime (groupby("date")["ot_h"].sum()), by date
Overview(srt) ==
    LET days   == {srt[k].date : k \in DOMAIN srt}
        nth(i) == CHOOSE d \in days : Cardinality({x \in days : x < d}) = i - 1
    IN  [i \in 1..Cardinality(days) |->
            [date |-> nth(i),
             ot_h |-> SeqSum([k \in 1..Len(srt) |->
                                 IF srt[k].date = nth(i) THEN srt[k].ot_h ELSE 0])]]

\* the table with its three flags and the streak column
Flagged(srt, zt, long_hours_threshold, streak_threshold) ==
    [k \in DOMAIN srt |->
        [idx |-> srt[k].idx, emp_id |-> srt[k].emp_id, date |-> srt[k].date,
         work_h |-> srt[k].work_h, ot_h |-> srt[k].ot_h,
         streak |-> longest_streak(srt, k),
         flag_z |-> z_anom(srt, k, zt),
         flag_long |-> srt[k].work_h >= long_hours_threshold,
         flag_streak |-> longest_streak(srt, k) >= streak_threshold]]

\* the mutant: a row needs the z flag and one of the other two
AnyFlag_and(r) == r.flag_z /\ (r.flag_long \/ r.flag_streak)

AnyFlag(r) == r.flag_z \/ r.flag_long \/ r.flag_streak

\* detect_attendance_anomalies on a table that has the four columns
detect_attendance_anomalies(df, zt, long_hours_threshold, streak_threshold) ==
    LET srt == sort_values(Indexed(df))
        all == Flagged(srt, zt, long_hours_threshold, streak_threshold)
    IN  [anomalies |-> sort_values(SelectSeq(all, AnyFlag)),
         fig       |-> Overview(srt)]

\* The call: ensure_columns first, then the computation on a copy.
DetectCall ==
    /\ attPc = "detect"
    /\ calls' = Append(calls, "detect_attendance_anomalies")
    /\ LET missing == ensure_columns(att_df.cols, REQ)
       IN  IF missing # <<>>
           THEN /\ attPc' = "raised"
                /\ attError' = missing
                /\ UNCHANGED <<anomalies, overview_fig>>
           ELSE LET out == detect_attendance_anomalies(
                               att_df, att_z_thr, att_long_thr, att_streak_thr)
                IN  /\ attPc' = "detected"
                    /\ anomalies' = out.anomalies
                    /\ overview_fig' = out.fig
                    /\ UNCHANGED attError
    /\ UNCHANGED <<att_up, att_df, att_z_thr, att_long_thr, att_streak_thr, v2,
                   att_report>>
    /\ UNCHANGED hrVars
    /\ UNCHANGED auxVars

-----------------------------------------------------------------------------
(* Cells of a table: a number, a missing value (NaN) or a string that is not
   a number. Paid-leave rates are numbers in hundredths. *)

Num(n) == [k |-> "num", n |-> n]
NaN == [k |-> "nan", n |-> 0]
Str == [k |-> "str", n |-> 0]

IsNum(c) == c.k = "num"

\* pd.to_numeric(errors="coerce")
to_numeric(c) == IF IsNum(c) THEN c ELSE NaN

\* Series.isna()
isna(c) == c.k = "nan"

SetMax(S) == CHOOSE m \in S : \A x \in S : x <= m

\* table[col] as a sequence of cells
Column(df, col) == [i \in DOMAIN df.rows |-> df.rows[i][col]]

\* number of positions of a sequence that satisfy Test
CountIf(s, Test(_)) == Cardinality({i \in DOMAIN s : Test(s[i])})

-----------------------------------------------------------------------------
(* modules/utils.py: normalize_hr_columns *)

\* df.rename(columns=ren) for a renaming that is one-to-one on the columns and
\* whose new names do not meet the names that stay
RenameColumns(df, ren) ==
    LET newName(c) == IF c \in DOMAIN ren THEN ren[c] ELSE c
        newCols    == {newName(c) : c \in df.cols}
        oldName(d) == CHOOSE c \in df.cols : newName(c) = d
    IN  [cols |-> newCols,
         rows |-> [i \in DOMAIN df.rows |-> [d \in newCols |-> df.rows[i][oldName(d)]]]]

\* the mutant: the lower bound 0.0 <= max is dropped
ScalePto_noLower(ser_num) ==
    LET filled  == {IF isna(ser_num[i]) THEN -100 ELSE ser_num[i].n : i \in DOMAIN ser_num}
    IN  IF filled # {} /\ SetMax(filled) <= 100
        THEN [i \in DOMAIN ser_num |->
                 IF isna(ser_num[i]) THEN NaN ELSE Num(ser_num[i].n * 100)]
        ELSE ser_num

\* lines 236-240: the maximum of the column with NaN replaced by -1.0; the
\* column times 100 when 0.0 <= max <= 1.0, the numeric column otherwise.
\* The maximum of an empty column is NaN and fails both comparisons.
ScalePto(ser_num) ==
    LET filled  == {IF isna(ser_num[i]) THEN -100 ELSE ser_num[i].n : i \in DOMAIN ser_num}
    IN  IF filled # {} /\ 0 <= SetMax(filled) /\ SetMax(filled) <= 100
        THEN [i \in DOMAIN ser_num |->
                 IF isna(ser_num[i]) THEN NaN ELSE Num(ser_num[i].n * 100)]
        ELSE ser_num

normalize_hr_columns(df) ==
    LET df2 == IF "rating_raw" \in df.cols /\ "rating" \notin df.cols
               THEN RenameColumns(df, [c \in {"rating_raw"} |-> "rating"])
               ELSE df
    IN  IF "pto_rate" \in df2.cols
        THEN LET ser_num == [i \in DOMAIN df2.rows |-> to_numeric(df2.rows[i]["pto_rate"])]
                 scaled  == ScalePto(ser_num)
             IN  [cols |-> df2.cols,
                  rows |-> [i \in DOMAIN df2.rows |->
                               [c \in df2.cols |->
                                   IF c = "pto_rate" THEN scaled[i] ELSE df2.rows[i][c]]]]
        ELSE df2

-----------------------------------------------------------------------------
(* modules/utils.py: apply_column_mapping *)

\* mapping is the dict of the caller as the sequence of its items
\* <<required name, actual name>>, in insertion order.
\* ren = {actual: req for req, actual in mapping.items() if actual in df.columns}:
\* of two required names mapped to one actual column the later one stays
apply_column_mapping(df, mapping) ==
    LET used    == {a \in df.cols : \E i \in DOMAIN mapping : mapping[i][2] = a}
        last(a) == SetMax({i \in DOMAIN mapping : mapping[i][2] = a})
        ren     == [a \in used |-> mapping[last(a)][1]]
    IN  IF used = {} THEN df ELSE RenameColumns(df, ren)

-----------------------------------------------------------------------------
(* modules/utils.py: suggest_column_mapping. A name is the sequence of its
   characters; a character outside ASCII is written u followed by its code
   point (u793e u54e1 I D is shain-ID). *)

\* characters str.strip() removes at both ends
Whitespace == {" ", "\t", "\n", "\r", "u3000"}

RECURSIVE lstrip(_)
lstrip(s) == IF s # <<>> /\ Head(s) \in Whitespace THEN lstrip(Tail(s)) ELSE s

RECURSIVE rstrip(_)
rstrip(s) ==
    IF s # <<>> /\ s[Len(s)] \in Whitespace THEN rstrip(SubSeq(s, 1, Len(s) - 1)) ELSE s

strip(s) == rstrip(lstrip(s))

UpperCase == <<"A", "B", "C", "D", "E", "F", "G", "H", "I", "J", "K", "L", "M",
               "N", "O", "P", "Q", "R", "S", "T", "U", "V", "W", "X", "Y", "Z">>
LowerCase == <<"a", "b", "c", "d", "e", "f", "g", "h", "i", "j", "k", "l", "m",
               "n", "o", "p", "q", "r", "s", "t", "u", "v", "w", "x", "y", "z">>

\* str.lower() on the characters of the names used here
lower(s) ==
    [i \in DOMAIN s |->
        IF \E k \in DOMAIN UpperCase : UpperCase[k] = s[i]
        THEN LowerCase[CHOOSE k \in DOMAIN UpperCase : UpperCase[k] = s[i]]
        ELSE s[i]]

\* the characters _normalize_name deletes
Deleted == {" ", "\t", "\n", "(", ")", "uff05", "%", "-", "_", ":", "u30fb", "h"}

\* synonyms of domain "hr": items <<required name, aliases>>
synonyms_hr == <<
    <<<<"u793e", "u54e1", "I", "D">>,
      <<<<"u793e", "u54e1", "i", "d">>,
        <<"u5f93", "u696d", "u54e1", "i", "d">>,
        <<"u5f93", "u696d", "u54e1", "u756a", "u53f7">>,
        <<"u793e", "u54e1", "u756a", "u53f7">>,
        <<"i", "d">>>>>>,
    <<<<"u5e74", "u9f62">>,
      <<<<"a", "g", "e">>>>>>,
    <<<<"u52e4", "u7d9a", "u5e74", "u6570">>,
      <<<<"u52e4", "u7d9a">>,
        <<"u5728", "u7c4d", "u5e74", "u6570">>,
        <<"y", "e", "a", "r", "s", "i", "n", "a", "s", "e", "r", "v", "i", "c", "e">>>>>>,
    <<<<"u5e73", "u5747", "u6b8b", "u696d", "u6642", "u9593", "h">>,
      <<<<"u5e73", "u5747", "u6b8b", "u696d">>,
        <<"u6b8b", "u696d", "u6642", "u9593">>,
        <<"o", "t">>,
        <<"o", "v", "e", "r", "t", "i", "m", "e">>>>>>,
    <<<<"u6709", "u7d66", "u53d6", "u5f97", "u7387">>,
      <<<<"u6709", "u7d66", "u7387">>,
        <<"u6709", "u4f11", "u53d6", "u5f97", "u7387">>,
        <<"u6709", "u4f11", "u7387">>,
        <<"p", "t", "o">>,
        <<"v", "a", "c", "a", "t", "i", "o", "n", "r", "a", "t", "e">>>>>>,
    <<<<"u8a55", "u4fa1", "(", "1", "-", "5", ")">>,
      <<<<"u8a55", "u4fa1">>,
        <<"u30ec", "u30fc", "u30c6", "u30a3", "u30f3", "u30b0">>,
        <<"r", "a", "t", "i", "n", "g">>,
        <<"u8a55", "u4fa1", "u30b9", "u30b3", "u30a2">>>>>>,
    <<<<"u6607", "u7d66", "u56de", "u6570">>,
      <<<<"u6607", "u7d66">>,
        <<"u6607", "u7d66", "u56de">>,
        <<"u8cc3", "u4e0a", "u3052", "u56de", "u6570">>>>>>,
    <<<<"u90e8", "u7f72", "u7570", "u52d5", "u56de", "u6570">>,
      <<<<"u7570", "u52d5", "u56de", "u6570">>,
        <<"u90e8", "u7f72", "u7570", "u52d5">>,
        <<"u30ed", "u30fc", "u30c6", "u56de", "u6570">>>>>>
>>

\* synonyms of the other domains
synonyms_att == <<
    <<<<"u793e", "u54e1", "I", "D">>,
      <<<<"u793e", "u54e1", "i", "d">>,
        <<"u5f93", "u696d", "u54e1", "i", "d">>,
        <<"u5f93", "u696d", "u54e1", "u756a", "u53f7">>,
        <<"u793e", "u54e1", "u756a", "u53f7">>,
        <<"i", "d">>>>>>,
    <<<<"u65e5", "u4ed8">>,
      <<<<"u5e74", "u6708", "u65e5">>,
        <<"d", "a", "t", "e">>,
        <<"u65e5">>>>>>,
    <<<<"u52e4", "u52d9", "u6642", "u9593", "h">>,
      <<<<"u52e4", "u52d9", "u6642", "u9593">>,
        <<"u5b9f", "u50cd", "u6642", "u9593">>,
        <<"u52b4", "u50cd", "u6642", "u9593">>,
        <<"u7a3c", "u50cd", "u6642", "u9593">>>>>>,
    <<<<"u6b8b", "u696d", "u6642", "u9593", "h">>,
      <<<<"u6b8b", "u696d", "u6642", "u9593">>,
        <<"o", "t">>,
        <<"o", "v", "e", "r", "t", "i", "m", "e">>,
        <<"u8d85", "u904e", "u6642", "u9593">>>>>>
>>

\* required_hr and required_att of app.py
required_hr == <<<<"u793e", "u54e1", "I", "D">>,
                <<"u5e74", "u9f62">>,
                <<"u52e4", "u7d9a", "u5e74", "u6570">>,
                <<"u5e73", "u5747", "u6b8b", "u696d", "u6642", "u9593", "h">>,
                <<"u6709", "u7d66", "u53d6", "u5f97", "u7387">>,
                <<"u8a55", "u4fa1", "(", "1", "-", "5", ")">>,
                <<"u6607", "u7d66", "u56de", "u6570">>,
                <<"u90e8", "u7f72", "u7570", "u52d5", "u56de", "u6570">>>>

required_att == <<<<"u793e", "u54e1", "I", "D">>,
                 <<"u65e5", "u4ed8">>,
                 <<"u52e4", "u52d9", "u6642", "u9593", "h">>,
                 <<"u6b8b", "u696d", "u6642", "u9593", "h">>>>


\* strip, lower, then every listed character deleted
_normalize_name(name) == SelectSeq(lower(strip(name)), LAMBDA ch : ch \notin Deleted)

\* sub in s, on strings
Contains(sub, s) ==
    \E k \in 0..(Len(s) - Len(sub)) : SubSeq(s, k + 1, k + Len(sub)) = sub

\* synonyms.get(req, [])
SynonymsOf(domain, req) ==
    LET t == IF domain = "hr" THEN synonyms_hr ELSE synonyms_att
    IN  IF \E i \in DOMAIN t : t[i][1] = req
        THEN t[CHOOSE i \in DOMAIN t : t[i][1] = req][2]
        ELSE <<>>

\* hit = None, as a name: the empty one (if hit: is false for both)
NoHit == <<>>

\* the mutant: the second loop takes only a column whose normalized name
\* equals an alias
Hit_aliasEqual(actual_columns, req, domain) ==
    LET req_norm == _normalize_name(req)
        syns     == SynonymsOf(domain, req)
        n == Len(actual_columns)
        first(S) == actual_columns[CHOOSE i \in S : \A j \in S : i <= j]
        P1 == {i \in 1..n : _normalize_name(actual_columns[i]) = req_norm}
        P2 == {i \in 1..n : \E k \in DOMAIN syns :
                  _normalize_name(actual_columns[i]) = _normalize_name(syns[k])}
        P3 == {i \in 1..n : Contains(req_norm, _normalize_name(actual_columns[i]))}
    IN  IF P1 # {} THEN first(P1)
        ELSE IF P2 # {} THEN first(P2)
        ELSE IF P3 # {} THEN first(P3)
        ELSE NoHit

\* hit for one required name: the three loops over the actual columns, each
\* taking the first column that matches
Hit(actual_columns, req, domain) ==
    LET req_norm == _normalize_name(req)
        syns     == SynonymsOf(domain, req)
        exact(col) == _normalize_name(col) = req_norm
        syn(col)   == \E k \in DOMAIN syns :
                         \/ _normalize_name(col) = _normalize_name(syns[k])
                         \/ Contains(_normalize_name(syns[k]), _normalize_name(col))
        part(col)  == Contains(req_norm, _normalize_name(col))
        n == Len(actual_columns)
        first(S) == actual_columns[CHOOSE i \in S : \A j \in S : i <= j]
        P1 == {i \in 1..n : exact(actual_columns[i])}
        P2 == {i \in 1..n : syn(actual_columns[i])}
        P3 == {i \in 1..n : part(actual_columns[i])}
    IN  IF P1 # {} THEN first(P1)
        ELSE IF P2 # {} THEN first(P2)
        ELSE IF P3 # {} THEN first(P3)
        ELSE NoHit

\* the dict mapping as its items <<required name, actual column>>, in the
\* order of required
suggest_column_mapping(actual_columns, required, domain) ==
    LET items == [i \in DOMAIN required |->
                     <<required[i], Hit(actual_columns, required[i], domain)>>]
    IN  SelectSeq(items, LAMBDA it : it[2] # NoHit)

\* a caller calls suggest_column_mapping
SuggestCall ==
    /\ sug # NoRec
    /\ sug.pc = "call"
    /\ sug' = [sug EXCEPT
                 !.mapping = suggest_column_mapping(sug.actual_columns, sug.required,
                                                    sug.domain),
                 !.pc = "done"]
    /\ UNCHANGED hrVars
    /\ UNCHANGED attVars
    /\ UNCHANGED <<calls, use_anonymize, api_key, anon, comment>>

-----------------------------------------------------------------------------
(* modules/utils.py: anonymize_ids. A pseudonym is the sequence of its
   characters. *)

\* the text of a text identifier
StrText == "A1"

\* series.astype(str): a column of numbers with an empty cell is a float
\* column and prints 1 as 1.0; the empty cell prints as nan
astype_str(series) ==
    LET float == /\ \E i \in DOMAIN series : isna(series[i])
                 /\ \A i \in DOMAIN series : isna(series[i]) \/ IsNum(series[i])
    IN  [i \in DOMAIN series |->
            CASE isna(series[i])  -> "nan"
              [] IsNum(series[i]) -> IF float THEN ToString(series[i].n) \o ".0"
                                     ELSE ToString(series[i].n)
              [] OTHER            -> StrText]

\* hashlib.sha256(salt + str).hexdigest() on the identifiers and salts used
\* here, as computed by hashlib; a digest is the sequence of its 64 characters
sha256_hexdigest ==
    {[salt |-> "hrtool", b |-> "1", hex |->
        <<"6", "c", "2", "a", "0", "4", "5", "4", "e", "4", "e", "2", "7", "8", "a", "f", "4", "9", "0", "b", "f", "1", "5", "1", "7", "6", "8", "4", "b", "d", "e", "9",
          "0", "7", "0", "e", "a", "8", "7", "0", "d", "4", "b", "1", "8", "c", "3", "3", "4", "4", "f", "3", "f", "9", "9", "c", "1", "1", "8", "c", "b", "5", "5", "4">>],
     [salt |-> "hrtool", b |-> "2", hex |->
        <<"a", "e", "6", "6", "a", "3", "a", "9", "3", "6", "6", "9", "0", "6", "8", "2", "d", "d", "2", "6", "6", "8", "2", "7", "5", "6", "4", "7", "2", "7", "1", "8",
          "2", "f", "d", "3", "7", "8", "b", "b", "6", "f", "8", "2", "6", "7", "7", "9", "5", "9", "b", "f", "3", "c", "5", "a", "1", "3", "a", "3", "5", "6", "4", "1">>],
     [salt |-> "hrtool", b |-> "3", hex |->
        <<"2", "d", "5", "e", "3", "a", "9", "6", "d", "f", "a", "4", "b", "0", "e", "4", "7", "c", "f", "f", "5", "9", "e", "f", "3", "5", "e", "6", "e", "3", "4", "2",
          "4", "7", "4", "4", "8", "a", "e", "5", "a", "2", "b", "b", "0", "a", "1", "1", "3", "4", "c", "0", "e", "0", "1", "6", "4", "8", "9", "b", "1", "0", "6", "0">>],
     [salt |-> "hrtool", b |-> "1.0", hex |->
        <<"4", "1", "0", "b", "9", "c", "6", "0", "e", "f", "7", "a", "a", "f", "6", "4", "e", "3", "8", "4", "b", "6", "2", "6", "3", "8", "f", "a", "c", "b", "4", "2",
          "0", "6", "f", "7", "0", "c", "4", "7", "6", "5", "f", "0", "9", "6", "c", "0", "e", "1", "8", "f", "e", "d", "b", "8", "8", "8", "4", "f", "e", "1", "a", "9">>],
     [salt |-> "hrtool", b |-> "2.0", hex |->
        <<"7", "d", "a", "f", "a", "3", "f", "3", "0", "0", "0", "2", "2", "9", "7", "f", "4", "e", "1", "0", "e", "6", "4", "1", "f", "3", "2", "c", "8", "6", "b", "4",
          "9", "9", "7", "8", "f", "d", "7", "3", "0", "8", "a", "3", "5", "e", "7", "d", "4", "5", "c", "6", "4", "1", "9", "3", "5", "e", "9", "e", "8", "1", "c", "4">>],
     [salt |-> "hrtool", b |-> "3.0", hex |->
        <<"f", "b", "5", "9", "f", "0", "c", "8", "3", "a", "d", "4", "e", "d", "d", "2", "d", "c", "d", "3", "e", "c", "6", "b", "0", "9", "1", "2", "3", "0", "9", "0",
          "1", "6", "2", "c", "1", "7", "1", "5", "1", "d", "5", "f", "6", "2", "c", "8", "2", "0", "8", "6", "0", "9", "5", "c", "a", "1", "9", "7", "a", "d", "9", "0">>],
     [salt |-> "hrtool", b |-> "nan", hex |->
        <<"d", "6", "d", "2", "6", "3", "e", "d", "d", "e", "9", "8", "a", "c", "0", "7", "4", "f", "6", "9", "9", "5", "7", "3", "8", "d", "b", "3", "0", "1", "6", "5",
          "f", "3", "1", "0", "0", "5", "d", "1", "9", "a", "f", "b", "a", "3", "9", "1", "4", "2", "e", "d", "c", "7", "0", "a", "7", "f", "f", "8", "a", "f", "b", "6">>],
     [salt |-> "hrtool", b |-> "A1", hex |->
        <<"8", "1", "7", "d", "8", "4", "d", "9", "a", "d", "1", "d", "3", "d", "8", "0", "0", "8", "5", "5", "2", "1", "f", "3", "1", "4", "7", "a", "c", "3", "1", "7",
          "e", "9", "7", "a", "4", "0", "5", "9", "5", "b", "c", "f", "8", "5", "9", "0", "6", "b", "f", "b", "5", "e", "2", "c", "e", "1", "4", "f", "6", "5", "0", "0">>],
     [salt |-> "s2", b |-> "1", hex |->
        <<"e", "c", "5", "9", "d", "f", "c", "2", "f", "1", "a", "7", "c", "c", "0", "d", "5", "0", "8", "6", "7", "0", "1", "d", "4", "3", "8", "f", "3", "7", "b", "c",
          "7", "a", "c", "0", "7", "7", "5", "b", "9", "f", "a", "9", "8", "1", "1", "c", "d", "2", "f", "5", "0", "d", "f", "7", "1", "0", "f", "9", "1", "2", "1", "1">>],
     [salt |-> "s2", b |-> "2", hex |->
        <<"f", "4", "f", "7", "b", "3", "d", "7", "e", "1", "d", "c", "d", "c", "b", "6", "1", "d", "7", "8", "9", "4", "d", "c", "e", "8", "7", "d", "2", "2", "1", "7",
          "f", "b", "f", "1", "0", "7", "1", "e", "4", "4", "0", "2", "c", "8", "f", "2", "8", "e", "3", "7", "6", "5", "f", "2", "3", "9", "e", "3", "9", "7", "b", "1">>],
     [salt |-> "s2", b |-> "3", hex |->
        <<"1", "0", "1", "6", "6", "c", "0", "4", "b", "a", "9", "c", "4", "b", "6", "4", "3", "7", "0", "a", "b", "f", "a", "a", "0", "f", "6", "0", "7", "4", "d", "f",
          "0", "3", "0", "8", "2", "8", "9", "b", "5", "0", "8", "9", "b", "4", "b", "5", "8", "9", "2", "4", "8", "e", "1", "9", "1", "8", "c", "0", "9", "7", "8", "9">>],
     [salt |-> "s2", b |-> "1.0", hex |->
        <<"c", "e", "1", "d", "7", "c", "2", "3", "4", "4", "1", "d", "8", "8", "0", "b", "0", "2", "9", "4", "a", "b", "5", "1", "e", "e", "2", "b", "f", "5", "5", "a",
          "5", "b", "0", "e", "8", "4", "e", "5", "c", "9", "c", "f", "6", "5", "6", "6", "0", "4", "0", "a", "2", "6", "b", "4", "8", "d", "a", "a", "6", "c", "4", "8">>],
     [salt |-> "s2", b |-> "2.0", hex |->
        <<"f", "9", "b", "7", "8", "4", "a", "7", "9", "4", "8", "c", "4", "1", "1", "9", "9", "b", "b", "f", "8", "5", "5", "8", "8", "e", "b", "7", "8", "9", "5", "d",
          "b", "a", "7", "0", "f", "c", "3", "c", "c", "9", "2", "c", "a", "9", "c", "b", "e", "5", "f", "4", "f", "2", "7", "f", "2", "b", "4", "9", "1", "4", "2", "0">>],
     [salt |-> "s2", b |-> "3.0", hex |->
        <<"a", "9", "9", "6", "b", "9", "e", "7", "5", "7", "9", "a", "b", "c", "f", "1", "0", "2", "4", "1", "a", "a", "4", "1", "7", "f", "c", "2", "f", "7", "d", "d",
          "e", "6", "8", "4", "9", "6", "3", "c", "5", "e", "b", "0", "0", "4", "5", "f", "a", "8", "4", "1", "2", "1", "a", "9", "e", "5", "3", "b", "a", "0", "d", "7">>],
     [salt |-> "s2", b |-> "nan", hex |->
        <<"8", "0", "4", "7", "4", "f", "9", "8", "a", "4", "1", "d", "b", "4", "9", "a", "e", "7", "0", "c", "0", "d", "0", "6", "a", "5", "e", "3", "f", "8", "7", "9",
          "f", "c", "0", "b", "8", "6", "d", "d", "6", "a", "c", "a", "d", "9", "1", "a", "2", "0", "d", "1", "9", "1", "2", "8", "f", "7", "a", "7", "b", "e", "2", "a">>],
     [salt |-> "s2", b |-> "A1", hex |->
        <<"c", "9", "2", "4", "7", "d", "d", "f", "4", "a", "3", "2", "2", "2", "3", "1", "4", "f", "b", "f", "a", "1", "f", "b", "8", "3", "4", "d", "6", "6", "0", "2",
          "b", "c", "6", "9", "e", "c", "7", "a", "7", "2", "e", "b", "a", "b", "e", "f", "e", "2", "1", "c", "9", "c", "2", "c", "6", "6", "9", "e", "5", "4", "3", "6">>]}

hexdigest(salt, b) ==
    (CHOOSE d \in sha256_hexdigest : d.salt = salt /\ d.b = b).hex

\* os.getenv("ANON_SALT", "hrtool") when the variable is not set
DefaultSalt == "hrtool"

\* the defaults prefix="ID_", length=8
DefaultPrefix == <<"I", "D", "_">>
DefaultLength == 8

\* s[:n] for n >= 0
SliceTo(s, n) == SubSeq(s, 1, IF n < Len(s) THEN n ELSE Len(s))

\* the mutant: _mask is given the first element for every element
anonymize_ids_first(series, prefix, length, salt) ==
    LET strs == astype_str(series)
    IN  [i \in DOMAIN series |->
            prefix \o SliceTo(hexdigest(salt, strs[1]), IF length > 4 THEN length ELSE 4)]

\* series.astype(str).map(_mask); salt is the value of ANON_SALT
anonymize_ids(series, prefix, length, salt) ==
    LET strs == astype_str(series)
    IN  [i \in DOMAIN series |->
            prefix \o SliceTo(hexdigest(salt, strs[i]), IF length > 4 THEN length ELSE 4)]

\* callers of anonymize_ids: one call on a series, the same call repeated,
\* and a call on another series under the same salt
AnonymizeCall ==
    /\ anon # NoRec
    /\ "first" \notin anon.done
    /\ anon' = [anon EXCEPT
                  !.out = anonymize_ids(anon.series, anon.prefix, anon.length, anon.salt),
                  !.done = anon.done \cup {"first"}]
    /\ UNCHANGED hrVars
    /\ UNCHANGED attVars
    /\ UNCHANGED <<calls, use_anonymize, api_key, sug, comment>>

AnonymizeAgain ==
    /\ anon # NoRec
    /\ "first" \in anon.done
    /\ "again" \notin anon.done
    /\ anon' = [anon EXCEPT
                  !.again = anonymize_ids(anon.series, anon.prefix, anon.length, anon.salt),
                  !.done = anon.done \cup {"again"}]
    /\ UNCHANGED hrVars
    /\ UNCHANGED attVars
    /\ UNCHANGED <<calls, use_anonymize, api_key, sug, comment>>

AnonymizeOther ==
    /\ anon # NoRec
    /\ "other" \notin anon.done
    /\ anon' = [anon EXCEPT
                  !.out_other = anonymize_ids(anon.other, anon.prefix, anon.length, anon.salt),
                  !.done = anon.done \cup {"other"}]
    /\ UNCHANGED hrVars
    /\ UNCHANGED attVars
    /\ UNCHANGED <<calls, use_anonymize, api_key, sug, comment>>

-----------------------------------------------------------------------------
(* modules/utils.py: validate_hr *)

RequiredHR == <<"emp_id", "age", "tenure", "avg_ot_h", "pto_rate", "rating",
                "raises", "moves">>

RangeColsHR == <<"age", "tenure", "avg_ot_h", "pto_rate", "rating", "raises", "moves">>

\* the inclusive ranges of validate_hr (pto_rate in hundredths)
RangeLo(col) == CASE col = "age" -> 15 [] col = "rating" -> 1 [] OTHER -> 0
RangeHi(col) == CASE col = "age" -> 80
                  [] col = "avg_ot_h" -> 200
                  [] col = "pto_rate" -> 10000
                  [] col = "rating" -> 5
                  [] OTHER -> 50

\* count_out_of_range: s < min_v and s > max_v are False on NaN, so the mask
\* holds no NaN for fillna(True) to set and only numbers are counted
\* the mutant: a value equal to a bound counts as out of range
count_out_of_range_closed(series, min_v, max_v) ==
    CountIf(series, LAMBDA c : IsNum(to_numeric(c)) /\ (c.n <= min_v \/ c.n >= max_v))

count_out_of_range(series, min_v, max_v) ==
    CountIf(series, LAMBDA c : IsNum(to_numeric(c)) /\ (c.n < min_v \/ c.n > max_v))

NullCount(df, col) == CountIf(Column(df, col), isna)

\* Series.duplicated().any()
HasDuplicates(series) ==
    \E i, j \in DOMAIN series : i < j /\ series[i] = series[j]

MissingError(missing) == [kind |-> "missing", cols |-> missing, counts |-> <<>>]

NullError(df, required) ==
    LET bad == SelectSeq(required, LAMBDA c : NullCount(df, c) > 0)
    IN  [kind |-> "null", cols |-> bad,
         counts |-> [i \in DOMAIN bad |-> NullCount(df, bad[i])]]

RangeWarning(col, n_bad) == [kind |-> "range", col |-> col, n |-> n_bad]
DupWarning == [kind |-> "dup", col |-> "emp_id", n |-> 0]

\* the mutant: no return after the missing-columns error; the duplicate check
\* still runs when the id column is there
validate_hr_noreturn(df) ==
    [errors   |-> <<MissingError(MissingColumns(df.cols, RequiredHR))>>,
     warnings |-> IF "emp_id" \in df.cols /\ HasDuplicates(Column(df, "emp_id"))
                  THEN <<DupWarning>> ELSE <<>>]

validate_hr(df) ==
    LET missing == MissingColumns(df.cols, RequiredHR)
    IN  IF missing # <<>>
        THEN [errors |-> <<MissingError(missing)>>, warnings |-> <<>>]
        ELSE LET nullErr == NullError(df, RequiredHR)
                 n_bad(c) == count_out_of_range(Column(df, c), RangeLo(c), RangeHi(c))
                 bad     == SelectSeq(RangeColsHR, LAMBDA c : n_bad(c) > 0)
             IN  [errors   |-> IF nullErr.cols # <<>> THEN <<nullErr>> ELSE <<>>,
                  warnings |-> [i \in DOMAIN bad |-> RangeWarning(bad[i], n_bad(bad[i]))]
                               \o (IF HasDuplicates(Column(df, "emp_id"))
                                   THEN <<DupWarning>> ELSE <<>>)]

-----------------------------------------------------------------------------
(* modules/risk_model.py *)

PREFERRED_FEATURES == <<"age", "tenure", "avg_ot_h", "pto_rate", "rating",
                        "raises", "moves">>

\* the weights w of rule_based_score, in hundredths
W_tenure == -10
W_age == -5
W_avg_ot_h == 18
W_pto_rate == -20
W_rating == -25
W_raises == -10
W_moves == 8

\* sums of contributions are kept in units of 1/6000, in which every
\* contribution of the sampled values is a whole number
UnitsPerHundredth == 60

Clamp(x, lo, hi) == IF x < lo THEN lo ELSE IF x > hi THEN hi ELSE x

\* get(col): float(row.get(col)), None when the column is absent or the value
\* is no number; float() of a NaN succeeds and gives NaN
get(row, col) ==
    IF col \notin DOMAIN row THEN NoRec
    ELSE IF row[col].k = "str" THEN NoRec
    ELSE row[col]

\* the mutant: the normalized value is not clamped
Contribution_unclamped(w, num, den) == (w * UnitsPerHundredth * num) \div den

\* w * min(max(num/den, 0), 1) in units of 1/6000
Contribution(w, num, den) == (w * UnitsPerHundredth * Clamp(num, 0, den)) \div den

\* the contributions list of a row: one entry per available feature, in the
\* order of the code; an entry is a number of units or NaN
Contributions(row) ==
    LET one(col, w, shift, den) ==
            LET val == get(row, col)
            IN  IF val = NoRec THEN <<>>
                ELSE IF isna(val) THEN <<NaN>>
                ELSE <<Num(Contribution(w, val.n - shift, den))>>
    IN  one("tenure", W_tenure, 0, 10)
        \o one("age", W_age, 20, 30)
        \o one("avg_ot_h", W_avg_ot_h, 0, 60)
        \o one("pto_rate", W_pto_rate, 0, 10000)
        \o one("rating", W_rating, 1, 4)
        \o one("raises", W_raises, 0, 5)
        \o one("moves", W_moves, 0, 3)

\* np.round(100 / (1 + exp(-3x)), 1) in tenths of a percent, for x = u/6000:
\* SigmoidBase at the least sum -0.70, one tenth more at each listed u
SigmoidBase == 109

SigmoidSteps == <<
    -4191, -4171, -4151, -4130, -4110, -4091, -4071, -4052, -4032, -4013, -3994, -3975,
    -3956, -3937, -3919, -3900, -3882, -3864, -3846, -3828, -3810, -3793, -3775, -3758,
    -3740, -3723, -3706, -3689, -3672, -3655, -3638, -3622, -3605, -3589, -3573, -3556,
    -3540, -3524, -3508, -3492, -3477, -3461, -3445, -3430, -3414, -3399, -3384, -3369,
    -3353, -3338, -3323, -3309, -3294, -3279, -3264, -3250, -3235, -3221, -3206, -3192,
    -3178, -3164, -3150, -3136, -3122, -3108, -3094, -3080, -3066, -3053, -3039, -3025,
    -3012, -2999, -2985, -2972, -2959, -2945, -2932, -2919, -2906, -2893, -2880, -2867,
    -2854, -2842, -2829, -2816, -2803, -2791, -2778, -2766, -2753, -2741, -2729, -2716,
    -2704, -2692, -2680, -2667, -2655, -2643, -2631, -2619, -2607, -2596, -2584, -2572,
    -2560, -2548, -2537, -2525, -2513, -2502, -2490, -2479, -2467, -2456, -2444, -2433,
    -2422, -2410, -2399, -2388, -2377, -2366, -2355, -2343, -2332, -2321, -2310, -2299,
    -2288, -2278, -2267, -2256, -2245, -2234, -2223, -2213, -2202, -2191, -2181, -2170,
    -2160, -2149, -2138, -2128, -2118, -2107, -2097, -2086, -2076, -2066, -2055, -2045,
    -2035, -2024, -2014, -2004, -1994, -1984, -1974, -1963, -1953, -1943, -1933, -1923,
    -1913, -1903, -1893, -1883, -1874, -1864, -1854, -1844, -1834, -1824, -1815, -1805,
    -1795, -1785, -1776, -1766, -1756, -1747, -1737, -1728, -1718, -1708, -1699, -1689,
    -1680, -1670, -1661, -1651, -1642, -1633, -1623, -1614, -1604, -1595, -1586, -1576,
    -1567, -1558, -1549, -1539, -1530, -1521, -1512, -1502, -1493, -1484, -1475, -1466,
    -1457, -1448, -1439, -1429, -1420, -1411, -1402, -1393, -1384, -1375, -1366, -1357,
    -1348, -1339, -1331, -1322, -1313, -1304, -1295, -1286, -1277, -1268, -1260, -1251,
    -1242, -1233, -1224, -1216, -1207, -1198, -1189, -1181, -1172, -1163, -1155, -1146,
    -1137, -1129, -1120, -1111, -1103, -1094, -1085, -1077, -1068, -1060, -1051, -1043,
    -1034, -1025, -1017, -1008, -1000, -991, -983, -974, -966, -957, -949, -940,
    -932, -924, -915, -907, -898, -890, -882, -873, -865, -856, -848, -840,
    -831, -823, -815, -806, -798, -790, -781, -773, -765, -756, -748, -740,
    -732, -723, -715, -707, -699, -690, -682, -674, -666, -657, -649, -641,
    -633, -625, -616, -608, -600, -592, -584, -575, -567, -559, -551, -543,
    -535, -527, -518, -510, -502, -494, -486, -478, -470, -462, -453, -445,
    -437, -429, -421, -413, -405, -397, -389, -381, -373, -365, -356, -348,
    -340, -332, -324, -316, -308, -300, -292, -284, -276, -268, -260, -252,
    -244, -236, -228, -220, -212, -204, -196, -188, -180, -172, -164, -156,
    -148, -140, -132, -124, -116, -108, -100, -92, -84, -76, -68, -60,
    -52, -44, -36, -28, -20, -12, -4, 5, 13, 21, 29, 37,
    45, 53, 61, 69, 77, 85, 93, 101, 109, 117, 125, 133,
    141, 149, 157, 165, 173, 181, 189, 197, 205, 213, 221, 229,
    237, 245, 253, 261, 269, 277, 285, 293, 301, 309, 317, 325,
    333, 341, 349, 357, 366, 374, 382, 390, 398, 406, 414, 422,
    430, 438, 446, 454, 463, 471, 479, 487, 495, 503, 511, 519,
    528, 536, 544, 552, 560, 568, 576, 585, 593, 601, 609, 617,
    626, 634, 642, 650, 658, 667, 675, 683, 691, 700, 708, 716,
    724, 733, 741, 749, 757, 766, 774, 782, 791, 799, 807, 816,
    824, 832, 841, 849, 857, 866, 874, 883, 891, 899, 908, 916,
    925, 933, 941, 950, 958, 967, 975, 984, 992, 1001, 1009, 1018,
    1026, 1035, 1044, 1052, 1061, 1069, 1078, 1086, 1095, 1104, 1112, 1121,
    1130, 1138, 1147, 1156, 1164, 1173, 1182, 1190, 1199, 1208, 1217, 1225,
    1234, 1243, 1252, 1261, 1269, 1278, 1287, 1296, 1305, 1314, 1323, 1332,
    1340, 1349, 1358, 1367, 1376, 1385, 1394, 1403, 1412, 1421, 1430, 1440,
    1449, 1458, 1467, 1476, 1485, 1494, 1503, 1513, 1522, 1531, 1540, 1550,
    1559
>>

SigmoidTenths(u) ==
    SigmoidBase + Cardinality({i \in DOMAIN SigmoidSteps : SigmoidSteps[i] <= u})

\* the mutant: an empty contributions list scores as the least sum
rule_based_score_floor(row) ==
    LET contributions == Contributions(row)
    IN  IF contributions = <<>> THEN Num(SigmoidTenths(-4200))
        ELSE IF \E i \in DOMAIN contributions : isna(contributions[i]) THEN NaN
        ELSE Num(SigmoidTenths(SeqSum([i \in DOMAIN contributions |-> contributions[i].n])))

\* rule_based_score followed by the rounding of predict_attrition: the
\* probability of a row in tenths of a percent, NaN when a contribution is NaN
rule_based_score(row) ==
    LET contributions == Contributions(row)
    IN  IF contributions = <<>> THEN Num(SigmoidTenths(0))
        ELSE IF \E i \in DOMAIN contributions : isna(contributions[i]) THEN NaN
        ELSE Num(SigmoidTenths(SeqSum([i \in DOMAIN contributions |-> contributions[i].n])))

\* pd.cut(p, bins=[-0.1, med, high, 100], labels=["Low","Medium","High"]):
\* right-closed bins (-0.1, med], (med, high], (high, 100]; p in tenths
cut(p, med, high) ==
    IF isna(p) THEN "NaN"
    ELSE IF p.n <= -1 \/ p.n > 1000 THEN "NaN"
    ELSE IF p.n <= 10 * med THEN "Low"
    ELSE IF p.n <= 10 * high THEN "Medium"
    ELSE "High"

DefaultMed == 40
DefaultHigh == 70

\* feature_cols: the preferred features that are columns of the table
FeatureCols(df) == SelectSeq(PREFERRED_FEATURES, LAMBDA c : c \in df.cols)

RefCols(df) ==
    SelectSeq(<<"tenure", "avg_ot_h", "pto_rate", "rating">>, LAMBDA c : c \in df.cols)

\* the rule-based branch is taken (line 77, negated)
RuleBased(df) == ~("attrition" \in df.cols /\ FeatureCols(df) # <<>>)

\* df.apply(rule_based_score, axis=1)
RuleProba(df) == [i \in DOMAIN df.rows |-> rule_based_score(df.rows[i])]

RECURSIVE Flatten(_)
Flatten(ss) == IF ss = <<>> THEN <<>> ELSE Head(ss) \o Flatten(Tail(ss))

\* the positions of a set of naturals in increasing order
RECURSIVE Ascending(_)
Ascending(S) ==
    IF S = {} THEN <<>>
    ELSE LET m == CHOOSE x \in S : \A y \in S : x <= y
         IN  <<m>> \o Ascending(S \ {m})

\* sort_values("prob", ascending=False): larger first, NaN last, ties in the
\* order they had
SortByProbaDesc(rows) ==
    LET n == Len(rows)
        before(i, j) ==
            \/ IsNum(rows[i].prob) /\ ~IsNum(rows[j].prob)
            \/ IsNum(rows[i].prob) /\ IsNum(rows[j].prob) /\ rows[i].prob.n > rows[j].prob.n
            \/ /\ i < j
               /\ \/ ~IsNum(rows[i].prob) /\ ~IsNum(rows[j].prob)
                  \/ /\ IsNum(rows[i].prob) /\ IsNum(rows[j].prob)
                     /\ rows[i].prob.n = rows[j].prob.n
        rank(i) == 1 + Cardinality({j \in 1..n : before(j, i)})
    IN  [k \in 1..n |-> rows[CHOOSE i \in 1..n : rank(i) = k]]

\* predict_attrition from the probabilities of the chosen estimator (tenths of
\* a percent after np.round). The field row is the position, in the input
\* table, of the row whose probability the result row carries.
predict_attrition(df, proba) ==
    LET n      == Len(df.rows)
        ids    == IF "emp_id" \in df.cols THEN Column(df, "emp_id")
                  ELSE [i \in 1..n |-> Num(i)]
        refc   == RefCols(df)
        result == [i \in 1..n |->
                     [row |-> i, emp_id |-> ids[i], prob |-> proba[i],
                      tier |-> cut(proba[i], DefaultMed, DefaultHigh),
                      refs |-> <<>>]]
        \* result.merge(df[["emp_id", *ref_cols]], on="emp_id", how="left")
        match(i) == Ascending({j \in 1..n : ids[j] = ids[i]})
        merged == Flatten([i \in 1..n |->
                     [m \in DOMAIN match(i) |->
                         [result[i] EXCEPT
                            !.refs = [c \in Range(refc) |-> df.rows[match(i)[m]][c]]]]])
    IN  SortByProbaDesc(IF refc # <<>> THEN merged ELSE result)

\* the probabilities a fitted LogisticRegression may give to a row
LogRegProba == {Num(400), Num(700)}

\* the mutant: no auto-correction of the medium threshold
EffectiveMed_raw(med, high) == med

\* lines 219-222 of app.py
EffectiveMed(med, high) == IF med >= high THEN high - 1 ELSE med

\* validate_attendance
RangeHiAtt(col) == IF col = "work_h" THEN 48 ELSE 24

validate_attendance(df) ==
    LET missing == MissingColumns(df.cols, REQ)
    IN  IF missing # <<>>
        THEN [errors |-> <<MissingError(missing)>>, warnings |-> <<>>]
        ELSE LET nullErr == NullError(df, REQ)
                 \* pd.to_datetime(errors="coerce").isna().sum()
                 nat_cnt == CountIf(Column(df, "date"), LAMBDA c : ~IsNum(c))
                 n_bad(c) == count_out_of_range(Column(df, c), 0, RangeHiAtt(c))
                 bad     == SelectSeq(<<"work_h", "ot_h">>, LAMBDA c : n_bad(c) > 0)
             IN  [errors   |-> (IF nullErr.cols # <<>> THEN <<nullErr>> ELSE <<>>)
                               \o (IF nat_cnt > 0
                                   THEN <<[kind |-> "date", cols |-> <<"date">>,
                                           counts |-> <<nat_cnt>>]>>
                                   ELSE <<>>),
                  warnings |-> [i \in DOMAIN bad |-> RangeWarning(bad[i], n_bad(bad[i]))]]

-----------------------------------------------------------------------------
(* app.py: the script, tab1 (attrition) *)

Unselected == "(unselected)"

\* the selections of the mapping expander: one entry per required name. A
\* required name that is a column keeps itself or is left unselected (all of
\* them alike); a missing one is left unselected or set to a column that is
\* no required name.
Selections(df, required) ==
    LET req     == Range(required)
        missing == req \ df.cols
        extra   == df.cols \ req
    IN  {[r \in req |-> IF r \in df.cols
                        THEN (IF keep THEN r ELSE Unselected)
                        ELSE pick[r]] :
            keep \in BOOLEAN, pick \in [missing -> extra \cup {Unselected}]}

\* the dict mapping built by the loop over the required names, as its items
MappingOf(sel, required) ==
    LET chosen == SelectSeq(required, LAMBDA r : sel[r] # Unselected)
    IN  [i \in DOMAIN chosen |-> <<chosen[i], sel[chosen[i]]>>]

\* the mutant: warnings stop the run as well
st_stop_onWarnings(val) == val.errors # <<>> \/ val.warnings # <<>>

\* if v["errors"]: ... st.stop()
st_stop(val) == val.errors # <<>>

\* what the estimator may do on df: the rule-based branch is a function of
\* df; the fit of the other branch is library code, which raises or gives one
\* probability per row
PredictOutcomes(df) ==
    IF RuleBased(df)
    THEN {[raised |-> FALSE, proba |-> RuleProba(df), meta |-> [model |-> "Rule-Based"]]}
    ELSE {[raised |-> TRUE, proba |-> <<>>, meta |-> NoRec]}
         \cup {[raised |-> FALSE, proba |-> pr,
                meta |-> [model |-> "LogReg", f |-> Len(FeatureCols(df))]] :
                  pr \in [DOMAIN df.rows -> LogRegProba]}

\* (prob >= lo) & (prob < hi) .sum(), thresholds in percent
CountBetween(res, lo, hi) ==
    CountIf(res, LAMBDA r : IsNum(r.prob) /\ r.prob.n >= 10 * lo /\ r.prob.n < 10 * hi)

\* (prob >= lo).sum()
CountAtLeast(res, lo) ==
    CountIf(res, LAMBDA r : IsNum(r.prob) /\ r.prob.n >= 10 * lo)

\* a text cell that holds a pseudonym
TextCell(chars) == [k |-> "str", n |-> 0, text |-> chars]

\* the identifier column of a result table, and of an anomaly table (whose
\* rows hold the numbers of the cells)
ResultIds(df) == [i \in DOMAIN df |-> df[i].emp_id]
AnomalyIds(df) == [i \in DOMAIN df |-> Num(df[i].emp_id)]

\* show_df = df.copy(); show_df[id] = anonymize_ids(pd.Series(show_df[id]));
\* ids is the identifier column of df, ANON_SALT is not set
Anonymized(df, ids) ==
    LET masked == anonymize_ids(ids, DefaultPrefix, DefaultLength, DefaultSalt)
    IN  [i \in DOMAIN df |-> [df[i] EXCEPT !.emp_id = TextCell(masked[i])]]

\* the mutant: the copy is displayed as it is
display_df_raw(df, anonymize, ids) == df

\* lines 227-229 and 354-356 of app.py
display_df(df, anonymize, ids) == IF anonymize THEN Anonymized(df, ids) ELSE df

\* .head(n)
head(df, n) == SubSeq(df, 1, IF Len(df) < n THEN Len(df) ELSE n)

\* what build_pdf_attrition prints: its summary lines and its Top 10 listing
build_pdf_attrition(df, m, high_threshold, med_threshold, anonymize) ==
    LET show_df == IF anonymize THEN Anonymized(df, ResultIds(df)) ELSE df
    IN  [model |-> m.model, total |-> Len(df),
         high_threshold |-> high_threshold, med_threshold |-> med_threshold,
         high |-> CountAtLeast(df, high_threshold),
         med  |-> CountBetween(df, med_threshold, high_threshold),
         listing |-> head(SortByProbaDesc(show_df), 10)]

\* what build_pdf_attendance prints: its counts and its listing of 20
build_pdf_attendance(df, anonymize) ==
    LET show_df == IF anonymize THEN Anonymized(df, AnomalyIds(df)) ELSE df
    IN  [total |-> Len(df),
         long_cnt   |-> CountIf(df, LAMBDA r : r.flag_long),
         streak_cnt |-> CountIf(df, LAMBDA r : r.flag_streak),
         listing |-> head(show_df, 20)]

-----------------------------------------------------------------------------
(* modules/ai_comment.py. A rule-based comment is the record of the numbers
   its first line prints; its second line is fixed. *)

\* df[col].mean() over the cells that are numbers, as <<sum, count>>
MeanOf(cells) ==
    LET nums == SelectSeq(cells, IsNum)
    IN  <<SeqSum([i \in DOMAIN nums |-> nums[i].n]), Len(nums)>>

_rule_based_attrition(df) ==
    [kind   |-> "attrition",
     high   |-> CountAtLeast(df, 70),
     med    |-> CountBetween(df, 40, 70),
     avg_ot |-> IF df # <<>> /\ "avg_ot_h" \in DOMAIN df[1].refs
                THEN MeanOf([i \in DOMAIN df |-> df[i].refs["avg_ot_h"]])
                ELSE <<0, 1>>]

_rule_based_attendance(df) ==
    IF Len(df) = 0
    THEN [kind |-> "no anomaly"]
    ELSE [kind       |-> "attendance",
          count      |-> Len(df),
          long_cnt   |-> CountIf(df, LAMBDA r : r.flag_long),
          streak_cnt |-> CountIf(df, LAMBDA r : r.flag_streak)]

rule_based(dataframe, target) ==
    IF target = "attrition" THEN _rule_based_attrition(dataframe)
    ELSE _rule_based_attendance(dataframe)

\* what the external generator can do once the key is set: the import fails,
\* the request raises, the response has no choices (IndexError), its content
\* is None or empty, or it is a text
ExternalOutcomes ==
    {"import error", "network error", "no choices", "content None", "content empty",
     "content text"}

Failures == {"import error", "network error", "no choices"}

\* content.strip() of the generated text
GeneratedText == [kind |-> "generated"]
EmptyText == [kind |-> "empty"]

\* the mutant: no try/except around the external call
generate_comment_noexcept(dataframe, target, key) ==
    IF key = ""
    THEN {[text |-> rule_based(dataframe, target), raised |-> FALSE, invoked |-> FALSE,
           ext |-> "not used"]}
    ELSE {IF ext \in Failures
          THEN [text |-> NoRec, raised |-> TRUE, invoked |-> ext # "import error",
                ext |-> ext]
          ELSE [text |-> IF ext = "content text" THEN GeneratedText ELSE EmptyText,
                raised |-> FALSE, invoked |-> TRUE, ext |-> ext] : ext \in ExternalOutcomes}

\* the outcomes of generate_comment: the returned text, whether an exception
\* left the function, whether client.chat.completions.create was called, and
\* what the external generator did.
\* key is os.getenv("OPENAI_API_KEY"), "" when it is not set or empty
generate_comment(dataframe, target, key) ==
    IF key = ""
    THEN {[text |-> rule_based(dataframe, target), raised |-> FALSE, invoked |-> FALSE,
           ext |-> "not used"]}
    ELSE {IF ext \in Failures
          THEN [text |-> rule_based(dataframe, target), raised |-> FALSE,
                invoked |-> ext # "import error", ext |-> ext]
          ELSE [text |-> IF ext = "content text" THEN GeneratedText ELSE EmptyText,
                raised |-> FALSE, invoked |-> TRUE, ext |-> ext] : ext \in ExternalOutcomes}

\* a caller calls generate_comment
GenerateComment ==
    /\ comment # NoRec
    /\ comment.pc = "call"
    /\ \E out \in generate_comment(comment.dataframe, comment.target, api_key) :
          comment' = [comment EXCEPT !.out = out, !.pc = "done"]
    /\ UNCHANGED hrVars
    /\ UNCHANGED attVars
    /\ UNCHANGED <<calls, use_anonymize, api_key, sug, anon>>

LoadHR ==
    /\ hrPc = "start"
    /\ IF hr_up = NoUpload
       THEN /\ hrPc' = "skipped"
            /\ UNCHANGED hr_df
       ELSE /\ hrPc' = "normalized"
            /\ hr_df' = normalize_hr_columns(hr_up)
    /\ UNCHANGED <<attr_high, attr_med, hr_up, v, result_df, meta, eff, hr_report>>
    /\ UNCHANGED attVars
    /\ UNCHANGED calls
    /\ UNCHANGED auxVars

MapHR ==
    /\ hrPc = "normalized"
    /\ hrPc' = "mapped"
    /\ IF MissingColumns(hr_df.cols, RequiredHR) = <<>>
       THEN UNCHANGED hr_df
       ELSE \E sel \in Selections(hr_df, RequiredHR) :
               LET mapping == MappingOf(sel, RequiredHR)
               IN  hr_df' = IF mapping # <<>>
                            THEN apply_column_mapping(hr_df, mapping)
                            ELSE hr_df
    /\ UNCHANGED <<attr_high, attr_med, hr_up, v, result_df, meta, eff, hr_report>>
    /\ UNCHANGED attVars
    /\ UNCHANGED calls
    /\ UNCHANGED auxVars

ValidateHR ==
    /\ hrPc = "mapped"
    /\ v' = validate_hr(hr_df)
    /\ hrPc' = IF st_stop(v') THEN "stopped" ELSE "validated"
    /\ UNCHANGED <<attr_high, attr_med, hr_up, hr_df, result_df, meta, eff, hr_report>>
    /\ UNCHANGED attVars
    /\ UNCHANGED calls
    /\ UNCHANGED auxVars

PredictHR ==
    /\ hrPc = "validated"
    /\ calls' = Append(calls, "predict_attrition")
    /\ \E out \in PredictOutcomes(hr_df) :
          IF out.raised
          THEN /\ hrPc' = "raised"
               /\ UNCHANGED <<result_df, meta>>
          ELSE /\ hrPc' = "predicted"
               /\ result_df' = predict_attrition(hr_df, out.proba)
               /\ meta' = out.meta
    /\ UNCHANGED <<attr_high, attr_med, hr_up, hr_df, v, eff, hr_report>>
    /\ UNCHANGED attVars
    /\ UNCHANGED auxVars

RebucketHR ==
    /\ hrPc = "predicted"
    /\ hrPc' = "bucketed"
    /\ LET _high == attr_high
           _med  == EffectiveMed(attr_med, attr_high)
       IN  /\ eff' = [med |-> _med, high |-> _high]
           /\ result_df' = [i \in DOMAIN result_df |->
                               [result_df[i] EXCEPT !.tier = cut(result_df[i].prob, _med, _high)]]
    /\ UNCHANGED <<attr_high, attr_med, hr_up, hr_df, v, meta, hr_report>>
    /\ UNCHANGED attVars
    /\ UNCHANGED calls
    /\ UNCHANGED auxVars

\* the table, the KPI row, the alert, the comment and the PDF
RenderHR ==
    /\ hrPc = "bucketed"
    /\ hrPc' = "rendered"
    /\ \E out \in generate_comment(result_df, "attrition", api_key) :
          LET table_df == display_df(result_df, use_anonymize, ResultIds(result_df))
          IN  hr_report' =
                 [total_emp |-> Len(table_df),
                  high_cnt  |-> CountAtLeast(result_df, eff.high),
                  med_cnt   |-> CountBetween(result_df, eff.med, eff.high),
                  table     |-> table_df,
                  csv       |-> table_df,
                  xlsx      |-> table_df,
                  alert     |-> CountAtLeast(result_df, eff.high) > 0,
                  alert_cnt |-> CountAtLeast(result_df, eff.high),
                  comment   |-> out.text,
                  pdf       |-> build_pdf_attrition(result_df, meta, eff.high, eff.med,
                                                    use_anonymize)]
    /\ calls' = calls \o <<"generate_comment", "build_pdf_attrition">>
    /\ UNCHANGED <<attr_high, attr_med, hr_up, hr_df, v, result_df, meta, eff>>
    /\ UNCHANGED attVars
    /\ UNCHANGED auxVars

NextHR == LoadHR \/ MapHR \/ ValidateHR \/ PredictHR \/ RebucketHR \/ RenderHR

-----------------------------------------------------------------------------
(* app.py: the script, tab2 (attendance). It runs when tab1 ran to its end or
   had no upload: st.stop() and an exception end the whole script. *)

LoadAtt ==
    /\ hrPc \in {"skipped", "rendered"}
    /\ attPc = "start"
    /\ IF att_up = NoUpload
       THEN /\ attPc' = "skipped"
            /\ UNCHANGED att_df
       ELSE /\ attPc' = "loaded"
            /\ att_df' = att_up
    /\ UNCHANGED <<att_up, att_z_thr, att_long_thr, att_streak_thr, v2, anomalies,
                   overview_fig, attError, att_report>>
    /\ UNCHANGED hrVars
    /\ UNCHANGED calls
    /\ UNCHANGED auxVars

MapAtt ==
    /\ attPc = "loaded"
    /\ attPc' = "mapped"
    /\ IF MissingColumns(att_df.cols, REQ) = <<>>
       THEN UNCHANGED att_df
       ELSE \E sel \in Selections(att_df, REQ) :
               LET mapping2 == MappingOf(sel, REQ)
               IN  att_df' = IF mapping2 # <<>>
                             THEN apply_column_mapping(att_df, mapping2)
                             ELSE att_df
    /\ UNCHANGED <<att_up, att_z_thr, att_long_thr, att_streak_thr, v2, anomalies,
                   overview_fig, attError, att_report>>
    /\ UNCHANGED hrVars
    /\ UNCHANGED calls
    /\ UNCHANGED auxVars

ValidateAtt ==
    /\ attPc = "mapped"
    /\ v2' = validate_attendance(att_df)
    /\ attPc' = IF st_stop(v2') THEN "stopped" ELSE "detect"
    /\ UNCHANGED <<att_up, att_df, att_z_thr, att_long_thr, att_streak_thr, anomalies,
                   overview_fig, attError, att_report>>
    /\ UNCHANGED hrVars
    /\ UNCHANGED calls
    /\ UNCHANGED auxVars

\* the KPI row, the alert, the comment and the PDF
RenderAtt ==
    /\ attPc = "detected"
    /\ attPc' = "rendered"
    /\ \E out \in generate_comment(anomalies, "attendance", api_key) :
          LET disp_anom == display_df(anomalies, use_anonymize, AnomalyIds(anomalies))
          IN  att_report' =
                 [total_anom |-> Len(disp_anom),
                  long_cnt   |-> CountIf(disp_anom, LAMBDA r : r.flag_long),
                  streak_cnt |-> CountIf(disp_anom, LAMBDA r : r.flag_streak),
                  z_cnt      |-> CountIf(disp_anom, LAMBDA r : r.flag_z),
                  table      |-> disp_anom,
                  csv        |-> disp_anom,
                  xlsx       |-> disp_anom,
                  alert      |-> Len(anomalies) > 0,
                  comment    |-> out.text,
                  pdf        |-> build_pdf_attendance(anomalies, use_anonymize)]
    /\ calls' = calls \o <<"generate_comment", "build_pdf_attendance">>
    /\ UNCHANGED <<att_up, att_df, att_z_thr, att_long_thr, att_streak_thr, v2,
                   anomalies, overview_fig, attError>>
    /\ UNCHANGED hrVars
    /\ UNCHANGED auxVars

-----------------------------------------------------------------------------
(* Inputs of the detector *)

ReqSet == Range(REQ)

MaxStreakRows == 4
MaxZRows == 4
MaxDetectRows == 3
MaxEnsureRows == 2

AttRow(e, d, h, o, cols) ==
    [c \in cols |-> CASE c = "emp_id" -> Num(e)
                      [] c = "date"   -> Num(d)
                      [] c = "work_h" -> Num(h)
                      [] OTHER        -> Num(o)]

\* all tables of at most n rows over the columns cols
AttTables(E, D, H, O, cols, n) ==
    LET R == {AttRow(e, d, h, o, cols) : e \in E, d \in D, h \in H, o \in O}
    IN  {[cols |-> cols, rows |-> t] : t \in UNION {[1..k -> R] : k \in 0..n}}

\* anonymization off, no credential, no call of the helpers
AuxIdle ==
    /\ use_anonymize = FALSE
    /\ api_key = ""
    /\ sug = NoRec
    /\ anon = NoRec
    /\ comment = NoRec

\* tab1 before anything was uploaded, sliders at their defaults
HRIdle ==
    /\ attr_high = 70
    /\ attr_med = 40
    /\ hr_up = NoUpload
    /\ hr_df = NoUpload
    /\ hrPc = "start"
    /\ v = NoRec
    /\ result_df = None
    /\ meta = NoRec
    /\ eff = NoRec
    /\ hr_report = NoRec

\* a caller about to call detect_attendance_anomalies(att_df, ...)
AttIdle ==
    /\ att_up = NoUpload
    /\ attPc = "detect"
    /\ v2 = NoRec
    /\ anomalies = None
    /\ overview_fig = None
    /\ attError = None
    /\ att_report = NoRec
    /\ calls = <<>>
    /\ HRIdle
    /\ AuxIdle

\* streaks: two employees, days 1..3 (a gap of two days is possible), rows with
\* and without hours, several rows of one employee on one day
InitStreak ==
    /\ att_df \in AttTables({1, 2}, {1, 2, 3}, {0, 8}, {0}, ReqSet, MaxStreakRows)
    /\ att_z_thr = 20
    /\ att_long_thr = 11
    /\ att_streak_thr \in {1, 2}
    /\ AttIdle

\* z scores: groups of up to four rows, thresholds below, at and above zero
InitZ ==
    /\ att_df \in AttTables({1, 2}, {1}, {8}, {0, 3, 6}, ReqSet, MaxZRows)
    /\ att_z_thr \in {-10, 0, 10, 15, 20}
    /\ att_long_thr = 11
    /\ att_streak_thr = 12
    /\ AttIdle

\* the three flags together
InitDetect ==
    /\ att_df \in AttTables({1, 2}, {1, 2}, {0, 12}, {0, 3}, ReqSet, MaxDetectRows)
    /\ att_z_thr \in {5, 20}
    /\ att_long_thr = 11
    /\ att_streak_thr = 2
    /\ AttIdle

\* tables that lack columns
InitEnsure ==
    /\ \E cols \in SUBSET ReqSet :
          att_df \in AttTables({1, 2}, {1, 2}, {0, 8}, {0, 3}, cols, MaxEnsureRows)
    /\ att_z_thr = 20
    /\ att_long_thr = 11
    /\ att_streak_thr = 12
    /\ AttIdle

NextDetect == DetectCall

SpecStreak == InitStreak /\ [][NextDetect]_vars
SpecZ      == InitZ /\ [][NextDetect]_vars
SpecDetect == InitDetect /\ [][NextDetect]_vars
SpecEnsure == InitEnsure /\ [][NextDetect]_vars

-----------------------------------------------------------------------------
(* Inputs of tab1 and of the estimator. Uploads have at least one row. *)

MaxHRRows == 2
MaxPtoRows == 3
MaxAttRows == 2

FullCols == Range(RequiredHR)

Profile(age, tenure, ot, pto, rating, raises, moves, label) ==
    [age |-> age, tenure |-> tenure, avg_ot_h |-> ot, pto_rate |-> pto,
     rating |-> rating, raises |-> raises, moves |-> moves, attrition |-> Num(label)]

\* rule-based probability 40.0
P_mid == Profile(Num(20), Num(1), Num(0), Num(0), Num(3), Num(0), Num(0), 0)
\* rule-based probability 50.0
P_zero == Profile(Num(20), Num(0), Num(0), Num(0), Num(1), Num(0), Num(0), 1)
\* the largest rule-based probability, 68.6
P_hi == Profile(Num(20), Num(0), Num(60), Num(0), Num(1), Num(0), Num(3), 1)
\* an age out of its range, a paid-leave rate of 0.5
P_out == Profile(Num(99), Num(1), Num(0), Num(50), Num(3), Num(0), Num(0), 0)
\* an empty cell
P_nan == Profile(Num(20), Num(1), Num(0), Num(0), Num(3), NaN, Num(0), 0)
\* text in every feature
P_str == Profile(Str, Str, Str, Str, Str, Str, Str, 0)

HRRow(id, prof, cols) ==
    [c \in cols |-> CASE c = "emp_id"     -> Num(id)
                      [] c = "name"       -> Str
                      [] c = "rating_raw" -> prof["rating"]
                      [] OTHER            -> prof[c]]

\* tables of 1..n rows; row i has id 1 or i
HRTables(profs, cols, n) ==
    UNION {{[cols |-> cols, rows |-> [i \in 1..k |-> HRRow(id[i], pr[i], cols)]] :
               id \in {f \in [1..k -> 1..k] : \A i \in 1..k : f[i] \in {1, i}},
               pr \in [1..k -> profs]} : k \in 1..n}

\* the column sets of the uploads: complete, with a label, one required
\* column missing (with and without a spare column), rating under its raw name
UploadCols ==
    {FullCols,
     FullCols \cup {"attrition"},
     FullCols \ {"raises"},
     (FullCols \ {"raises"}) \cup {"name"},
     FullCols \ {"emp_id"},
     (FullCols \ {"rating"}) \cup {"rating_raw"}}

HRUploads ==
    UNION {HRTables({P_mid, P_out, P_nan}, cols, MaxHRRows) : cols \in UploadCols}

\* attendance uploads of one employee, one row a day: hours in range, out of
\* range, empty
AttCellRow(d, h, cols) ==
    [c \in cols |-> CASE c = "emp_id" -> Num(1)
                      [] c = "date"   -> Num(d)
                      [] c = "work_h" -> h
                      [] OTHER        -> Num(0)]

AttUploadCols == {ReqSet, ReqSet \ {"ot_h"}, (ReqSet \ {"ot_h"}) \cup {"overtime"}}

AttUploads ==
    UNION {UNION {{[cols |-> cols, rows |-> [i \in 1..k |-> AttCellRow(d[i], h[i], cols)]] :
                      d \in {[i \in 1..k |-> i]},
                      h \in [1..k -> {Num(12), Num(50), NaN}]} : k \in 1..MaxAttRows} :
           cols \in AttUploadCols}

\* the sidebar sliders of tab1 (app.py)
AttrHighMin == 50
AttrHighMax == 95
AttrMedMin == 20
AttrMedMax == 90

\* tab2 not yet reached, its sliders at their defaults
AttStart ==
    /\ att_df = NoUpload
    /\ att_z_thr = 20
    /\ att_long_thr = 11
    /\ att_streak_thr = 12
    /\ attPc = "start"
    /\ v2 = NoRec
    /\ anomalies = None
    /\ overview_fig = None
    /\ attError = None
    /\ att_report = NoRec
    /\ calls = <<>>

HRStart ==
    /\ hr_df = NoUpload
    /\ hrPc = "start"
    /\ v = NoRec
    /\ result_df = None
    /\ meta = NoRec
    /\ eff = NoRec
    /\ hr_report = NoRec

\* one run of the script: both uploaders, sliders at their defaults
Init ==
    /\ AuxIdle
    /\ attr_high = DefaultHigh
    /\ attr_med = DefaultMed
    /\ hr_up \in HRUploads \cup {NoUpload}
    /\ att_up \in AttUploads \cup {NoUpload}
    /\ HRStart
    /\ AttStart

Next == NextHR \/ LoadAtt \/ MapAtt \/ ValidateAtt \/ DetectCall \/ RenderAtt

Spec == Init /\ [][Next]_vars

\* tab1 alone under every position of its two sliders
InitSliders ==
    /\ AuxIdle
    /\ attr_high \in AttrHighMin..AttrHighMax
    /\ attr_med \in AttrMedMin..AttrMedMax
    /\ hr_up \in HRTables({P_mid, P_hi}, FullCols, 1)
    /\ att_up = NoUpload
    /\ HRStart
    /\ AttStart

SpecSliders == InitSliders /\ [][NextHR]_vars

\* normalize_hr_columns on paid-leave columns of every mix of rates below 0,
\* in 0..1 and above 1, empty cells and text
PtoRow(id, cell, cols) ==
    [c \in cols |-> CASE c = "emp_id"   -> Num(id)
                      [] c = "pto_rate" -> cell
                      [] OTHER          -> Num(3)]

PtoCells == {Num(-50), Num(0), Num(50), Num(100), Num(150), NaN, Str}

PtoUploads ==
    UNION {UNION {{[cols |-> cols, rows |-> [i \in 1..k |-> PtoRow(i, cell[i], cols)]] :
                      cell \in [1..k -> PtoCells]} : k \in 1..MaxPtoRows} :
           cols \in {{"emp_id", "pto_rate"}, {"emp_id", "pto_rate", "rating_raw"}}}

InitNorm ==
    /\ AuxIdle
    /\ attr_high = DefaultHigh
    /\ attr_med = DefaultMed
    /\ hr_up \in PtoUploads \cup {NoUpload}
    /\ att_up = NoUpload
    /\ HRStart
    /\ AttStart

SpecNorm == InitNorm /\ [][LoadHR]_vars

\* a caller about to call predict_attrition(hr_df) on tables of any columns
PredictCols ==
    {{"emp_id"}, {"emp_id", "attrition"}, {"age"}, {"age", "attrition"},
     {"emp_id", "age", "rating"}, FullCols}

InitPredict ==
    /\ AuxIdle
    /\ attr_high = DefaultHigh
    /\ attr_med = DefaultMed
    /\ hr_up = NoUpload
    /\ hr_df \in UNION {HRTables({P_mid, P_zero, P_nan, P_str}, cols, MaxHRRows) :
                           cols \in PredictCols}
    /\ hrPc = "validated"
    /\ v = NoRec
    /\ result_df = None
    /\ meta = NoRec
    /\ eff = NoRec
    /\ hr_report = NoRec
    /\ att_up = NoUpload
    /\ AttStart

SpecPredict == InitPredict /\ [][PredictHR]_vars

\* a caller about to call one of the two validators: tables with columns
\* missing, empty cells, text, values on and beyond the range bounds, repeated
\* ids, dates that do not parse
P_lo == Profile(Num(15), Num(0), Num(0), Num(0), Num(1), Num(0), Num(0), 0)
P_up == Profile(Num(80), Num(50), Num(200), Num(10000), Num(5), Num(50), Num(50), 1)
P_below == Profile(Num(14), Num(-1), Num(0), Num(0), Num(0), Num(0), Num(0), 0)

ValidateHRTables ==
    UNION {HRTables({P_lo, P_up, P_below, P_out, P_nan, P_str}, cols, MaxHRRows) :
              cols \in UploadCols \cup {{"emp_id"}}}

ValAttRow(d, h, o, cols) ==
    [c \in cols |-> CASE c = "emp_id" -> Num(1)
                      [] c = "date"   -> d
                      [] c = "work_h" -> h
                      [] OTHER        -> o]

\* date, working hours and overtime of a row: all on their bounds, one of
\* them beyond a bound, a date that is no date, empty cells
ValAttCells ==
    {<<Num(1), Num(48), Num(24)>>, <<Num(1), Num(49), Num(24)>>,
     <<Num(1), Num(48), Num(25)>>, <<Num(1), Num(-1), Num(24)>>,
     <<Str, Num(48), Num(24)>>, <<NaN, NaN, Num(24)>>}

ValidateAttTables ==
    UNION {UNION {{[cols |-> cols,
                    rows |-> [i \in 1..k |-> ValAttRow(c[i][1], c[i][2], c[i][3], cols)]] :
                      c \in [1..k -> ValAttCells]} : k \in 1..MaxAttRows} :
           cols \in AttUploadCols \cup {{"emp_id"}}}

InitValidate ==
    /\ AuxIdle
    /\ attr_high = DefaultHigh
    /\ attr_med = DefaultMed
    /\ hr_up = NoUpload
    /\ att_up = NoUpload
    /\ v = NoRec
    /\ result_df = None
    /\ meta = NoRec
    /\ eff = NoRec
    /\ hr_report = NoRec
    /\ att_z_thr = 20
    /\ att_long_thr = 11
    /\ att_streak_thr = 12
    /\ v2 = NoRec
    /\ anomalies = None
    /\ overview_fig = None
    /\ attError = None
    /\ att_report = NoRec
    /\ calls = <<>>
    /\ \/ /\ hr_df \in ValidateHRTables
          /\ hrPc = "mapped"
          /\ att_df = NoUpload
          /\ attPc = "start"
       \/ /\ att_df \in ValidateAttTables
          /\ attPc = "mapped"
          /\ hr_df = NoUpload
          /\ hrPc = "start"

SpecValidate == InitValidate /\ [][ValidateHR \/ ValidateAtt]_vars

\* nothing uploaded, nothing run
AppIdle ==
    /\ attr_high = DefaultHigh
    /\ attr_med = DefaultMed
    /\ hr_up = NoUpload
    /\ att_up = NoUpload
    /\ HRStart
    /\ AttStart

\* column names of uploads
ColumnPoolHR == {<<"u8a55", "u4fa1", "(", "1", "-", "5", ")">>,
                 <<"u5e74", "u9f62">>,
                 <<"A", "g", "e">>,
                 <<"a", "v", "e", "r", "a", "g", "e", "_", "o", "t">>,
                 <<"e", "m", "p", "_", "i", "d">>,
                 <<"u793e", "u54e1", "u756a", "u53f7">>,
                 <<"u8a55", "u4fa1">>,
                 <<"u5e73", "u5747", "u6b8b", "u696d", "u6642", "u9593", "(", "h", ")">>,
                 <<"u6b8b", "u696d", "u6642", "u9593">>,
                 <<"u5e74", "u9f62", "u5c64">>,
                 <<" ", "u5e74", "u9f62">>}

ColumnPoolAtt == {<<"u65e5", "u4ed8">>,
                  <<"D", "a", "t", "e">>,
                  <<"u52e4", "u52d9", "u65e5">>,
                  <<"u6b8b", "u696d", "u6642", "u9593">>,
                  <<"u52e4", "u52d9", "u6642", "u9593", "h">>,
                  <<"i", "d", "_", "d", "a", "t", "e">>,
                  <<"O", "T", "(", "h", ")">>,
                  <<"u793e", "u54e1", "I", "D">>}

MaxCols == 2

\* the lists of at most n different names of pool
ColumnLists(pool, n) ==
    UNION {{c \in [1..k -> pool] : \A i, j \in 1..k : i # j => c[i] # c[j]} : k \in 1..n}

\* a caller about to call suggest_column_mapping as tab1 and tab2 do
InitSuggest ==
    /\ AppIdle
    /\ use_anonymize = FALSE
    /\ api_key = ""
    /\ anon = NoRec
    /\ comment = NoRec
    /\ \E domain \in {"hr", "attendance"} :
          \E cols \in ColumnLists(IF domain = "hr" THEN ColumnPoolHR ELSE ColumnPoolAtt,
                                  MaxCols) :
             sug = [actual_columns |-> cols,
                    required |-> IF domain = "hr" THEN required_hr ELSE required_att,
                    domain |-> domain, mapping |-> <<>>, pc |-> "call"]

SpecSuggest == InitSuggest /\ [][SuggestCall]_vars

MaxIds == 2

\* identifier columns: whole numbers, text, empty cells
IdSeries(n) == UNION {[1..k -> {Num(1), NaN, Str}] : k \in 1..n}

\* the lengths asked for: below 4, 4, the default, the length of a digest
\* and beyond it
Lengths == {-1, 4, DefaultLength, 64, 65}

InitAnon ==
    /\ AppIdle
    /\ use_anonymize = FALSE
    /\ api_key = ""
    /\ sug = NoRec
    /\ comment = NoRec
    /\ \E series \in IdSeries(MaxIds), other \in IdSeries(MaxIds), length \in Lengths,
          salt \in {DefaultSalt, "s2"} :
          anon = [series |-> series, before |-> series, other |-> other,
                  prefix |-> DefaultPrefix, length |-> length, salt |-> salt,
                  out |-> <<>>, again |-> <<>>, out_other |-> <<>>, done |-> {}]

NextAnon == AnonymizeCall \/ AnonymizeAgain \/ AnonymizeOther

SpecAnon == InitAnon /\ [][NextAnon]_vars

MaxCommentRows == 2

\* result tables for the comment: probabilities on and off the fixed cut
\* points 40 and 70
CommentResultRow(i, prob, ot) ==
    [row |-> i, emp_id |-> Num(i), prob |-> prob, tier |-> cut(prob, DefaultMed, DefaultHigh),
     refs |-> [c \in {"avg_ot_h"} |-> ot]]

CommentResults ==
    UNION {{[i \in 1..k |-> CommentResultRow(i, pr[i], ot[i])] :
               pr \in [1..k -> {Num(390), Num(400), Num(700)}],
               ot \in [1..k -> {Num(0), Num(60)}]} : k \in 0..MaxCommentRows}

\* anomaly tables for the comment: the flags of each anomaly, at least one set
CommentAnomalies ==
    UNION {[1..k -> {f \in [flag_long : BOOLEAN, flag_streak : BOOLEAN, flag_z : BOOLEAN] :
                        f.flag_long \/ f.flag_streak \/ f.flag_z}] :
           k \in 0..MaxCommentRows}

\* a caller about to call generate_comment, the key set or not
InitComment ==
    /\ AppIdle
    /\ use_anonymize = FALSE
    /\ sug = NoRec
    /\ anon = NoRec
    /\ api_key \in {"", "sk-test"}
    /\ \E target \in {"attrition", "attendance"} :
          \E df \in (IF target = "attrition" THEN CommentResults ELSE CommentAnomalies) :
             comment = [dataframe |-> df, target |-> target, out |-> NoRec, pc |-> "call"]

SpecComment == InitComment /\ [][GenerateComment]_vars

MaxDisplayRows == 2

\* one run of the script with the anonymization checkbox on or off
InitDisplay ==
    /\ use_anonymize \in BOOLEAN
    /\ api_key = ""
    /\ sug = NoRec
    /\ anon = NoRec
    /\ comment = NoRec
    /\ attr_high = DefaultHigh
    /\ attr_med = DefaultMed
    /\ hr_up \in HRTables({P_mid, P_hi}, FullCols, MaxDisplayRows)
                 \cup HRTables({P_mid, P_hi}, {"emp_id", "age"}, 1) \cup {NoUpload}
    /\ att_up \in AttUploads \cup {NoUpload}
    /\ HRStart
    /\ AttStart

SpecDisplay == InitDisplay /\ [][Next]_vars

\* rows for the rule-based score: three base rows, and for each feature
\* values below, on, inside and above its clamp range (paid-leave rate in
\* hundredths of a percent)
B_low  == Profile(Num(20), Num(0), Num(0), Num(0), Num(1), Num(0), Num(0), 0)
B_mid  == Profile(Num(35), Num(5), Num(30), Num(5000), Num(3), Num(2), Num(1), 0)
B_high == Profile(Num(50), Num(10), Num(60), Num(10000), Num(5), Num(5), Num(3), 0)

FeatureValues(f) ==
    CASE f = "tenure"   -> {-1, 0, 5, 10, 12}
      [] f = "age"      -> {10, 20, 35, 50, 60}
      [] f = "avg_ot_h" -> {-5, 0, 30, 60, 80}
      [] f = "pto_rate" -> {-2500, 0, 5000, 10000, 12500}
      [] f = "rating"   -> {0, 1, 3, 5, 6}
      [] f = "raises"   -> {-1, 0, 2, 5, 7}
      [] f = "moves"    -> {-1, 0, 1, 3, 4}

\* two rows that differ in one feature, the second row having the larger value
InitMonotone ==
    /\ AuxIdle
    /\ attr_high = DefaultHigh
    /\ attr_med = DefaultMed
    /\ hr_up = NoUpload
    /\ \E base \in {B_low, B_mid, B_high}, f \in Range(PREFERRED_FEATURES) :
          \E a, b \in FeatureValues(f) :
             /\ a < b
             /\ hr_df = [cols |-> FullCols,
                         rows |-> <<HRRow(1, [base EXCEPT ![f] = Num(a)], FullCols),
                                    HRRow(2, [base EXCEPT ![f] = Num(b)], FullCols)>>]
    /\ hrPc = "validated"
    /\ v = NoRec
    /\ result_df = None
    /\ meta = NoRec
    /\ eff = NoRec
    /\ hr_report = NoRec
    /\ att_up = NoUpload
    /\ AttStart

SpecMonotone == InitMonotone /\ [][PredictHR]_vars


-----------------------------------------------------------------------------
(* What the claims speak about, stated on the input table *)

InRows == Indexed(att_df)

\* the output row of input row i, if there is one
OutOf(i) == {k \in DOMAIN anomalies : anomalies[k].idx = i}

WorkedOn(e, d) ==
    \E i \in DOMAIN InRows :
        InRows[i].emp_id = e /\ InRows[i].date = d /\ InRows[i].work_h > 0

\* number of consecutive calendar days, ending at day d, on which e worked
RECURSIVE ConsecutiveDays(_, _)
ConsecutiveDays(e, d) ==
    IF WorkedOn(e, d) THEN 1 + ConsecutiveDays(e, d - 1) ELSE 0

OneRowPerDay ==
    \A i, j \in DOMAIN InRows :
        (InRows[i].emp_id = InRows[j].emp_id /\ InRows[i].date = InRows[j].date)
            => i = j

\* C3: the streak carried by a row is 0 for a row without hours and otherwise
\* the number of consecutive calendar days, ending at the row's date, on which
\* the employee worked, for every input (several rows on one date included).
C3_StreakIsConsecutiveDays ==
    attPc = "detected" =>
        \A k \in DOMAIN anomalies :
            anomalies[k].streak =
                IF anomalies[k].work_h > 0
                THEN ConsecutiveDays(anomalies[k].emp_id, anomalies[k].date)
                ELSE 0

\* C3, the part that stands: the same statement for tables with at most one
\* row per employee and date.
C3_StreakOnDistinctDays ==
    (attPc = "detected" /\ OneRowPerDay) =>
        \A k \in DOMAIN anomalies :
            anomalies[k].streak =
                IF anomalies[k].work_h > 0
                THEN ConsecutiveDays(anomalies[k].emp_id, anomalies[k].date)
                ELSE 0

\* deviations from the mean, times N: d_j = N*x_j - sum(x), over the rows of
\* the employee of input row i
DevOf(i, j) ==
    LET G == {g \in DOMAIN InRows : InRows[g].emp_id = InRows[i].emp_id}
        S == SeqSum([g \in 1..Len(InRows) |-> IF g \in G THEN InRows[g].ot_h ELSE 0])
    IN  Cardinality(G) * InRows[j].ot_h - S

SumSqDev(i) ==
    SeqSum([j \in 1..Len(InRows) |->
        IF InRows[j].emp_id = InRows[i].emp_id THEN DevOf(i, j) * DevOf(i, j) ELSE 0])

GroupSize(i) ==
    Cardinality({g \in DOMAIN InRows : InRows[g].emp_id = InRows[i].emp_id})

\* (x_i - mean) / stddev > zt/10 with stddev^2 = sum((x_j - mean)^2) / N,
\* i.e. 10 * d_i * sqrt(N) > zt * sqrt(sum(d_j^2)), for a nonzero stddev
ZExceeds(i, zt) ==
    LET d  == DevOf(i, i)
        N  == GroupSize(i)
        D2 == SumSqDev(i)
    IN  IF zt >= 0
        THEN d > 0 /\ 100 * d * d * N > zt * zt * D2
        ELSE d >= 0 \/ 100 * d * d * N < zt * zt * D2

ZFlagged(i) == \E k \in OutOf(i) : anomalies[k].flag_z

StreakOf(i) ==
    LET srt == sort_values(InRows)
    IN  longest_streak(srt, CHOOSE k \in DOMAIN srt : srt[k].idx = i)

LongFlag(i) == InRows[i].work_h >= att_long_thr
ZFlag(i) == SumSqDev(i) # 0 /\ ZExceeds(i, att_z_thr)
StreakFlag(i) == StreakOf(i) >= att_streak_thr

OtherLong == {8}
OtherStreak == {1}
OtherZ == {0}

C7_MissingColumnsError ==
    [][(attPc = "detect" /\ \E c \in ReqSet : c \notin att_df.cols) =>
          /\ attPc' = "raised"
          /\ \A c \in ReqSet : (c \in Range(attError')) <=> (c \notin att_df.cols)
          /\ \A a, b \in DOMAIN attError' :
                a < b =>
                    \E x, y \in DOMAIN REQ :
                        x < y /\ REQ[x] = attError'[a] /\ REQ[y] = attError'[b]
          /\ anomalies' = None
          /\ overview_fig' = None
          /\ att_df' = att_df]_vars

\* two columns are missing and the call has raised
C7_Witness ==
    /\ attPc = "raised"
    /\ Len(attError) = 2
    /\ att_df.rows # <<>>

-----------------------------------------------------------------------------
(* Tiers *)

\* the tier the claim gives to a probability p (tenths of a percent) under the
\* cut points med and high (percent)
TierOfClaim(p, med, high) ==
    IF p.n < 10 * med THEN "Low"
    ELSE IF p.n < 10 * high THEN "Medium"
    ELSE "High"

\* C1: every scored row carries the tier of its probability p: Low when
\* p < med, Medium when med <= p < high, High when p >= high, a probability
\* equal to a cut point being in the upper tier; with the cut points (40, 70)
\* when predict_attrition returns and with the effective thresholds of the
\* sidebar after the re-bucketing of tab1.
C1_TierBucketing ==
    /\ hrPc = "predicted" =>
          \A i \in DOMAIN result_df :
             IsNum(result_df[i].prob) =>
                result_df[i].tier = TierOfClaim(result_df[i].prob, DefaultMed, DefaultHigh)
    /\ hrPc \in {"bucketed", "rendered"} =>
          \A i \in DOMAIN result_df :
             IsNum(result_df[i].prob) =>
                result_df[i].tier = TierOfClaim(result_df[i].prob, eff.med, eff.high)

\* C2: tab1 never stops a run because a recommended column is missing: no run
\* ends at st.stop() with the missing-columns error.
C2_MissingColumnsNeverStop ==
    hrPc = "stopped" => \A i \in DOMAIN v.errors : v.errors[i].kind # "missing"

-----------------------------------------------------------------------------
(* Thresholds of tab1 *)

\* the effective medium threshold of the claim
MediumOfClaim == IF attr_med >= attr_high THEN attr_high - 1 ELSE attr_med

\* C6: after the re-bucketing the effective pair is (high - 1, high) when the
\* medium slider is at or above the high slider and (medium, high) otherwise,
\* its medium is below its high for every position of the sliders, and the
\* tiers, the Medium count and the report use this medium.
C6_EffectiveMedium ==
    /\ attr_high \in AttrHighMin..AttrHighMax
    /\ attr_med \in AttrMedMin..AttrMedMax
    /\ hrPc \in {"bucketed", "rendered"} =>
          /\ eff = [med |-> MediumOfClaim, high |-> attr_high]
          /\ eff.med < eff.high
          /\ \A i \in DOMAIN result_df :
                result_df[i].tier = cut(result_df[i].prob, MediumOfClaim, attr_high)
    /\ hrPc = "rendered" =>
          /\ hr_report.med_cnt = CountBetween(result_df, MediumOfClaim, attr_high)
          /\ hr_report.pdf.med_threshold = MediumOfClaim
          /\ hr_report.pdf.med = CountBetween(result_df, MediumOfClaim, attr_high)

\* a run rendered with the medium slider above the high slider in which a row
\* counts as Medium only because of the corrected threshold
C6_Witness ==
    /\ hrPc = "rendered"
    /\ attr_med >= attr_high
    /\ eff.med = attr_high - 1
    /\ hr_report.med_cnt > 0

-----------------------------------------------------------------------------
(* The gate of the two flows *)

CalledAny(names) == \E i \in DOMAIN calls : calls[i] \in names

\* C8: with a non-empty errors list the script is stopped, the estimator
\* (detector) was not called and there is no result, report, comment or PDF;
\* with an empty errors list, whatever the warnings, the script is not stopped
\* but at the call of the estimator (detector) or past it, and once past it
\* the estimator (detector) has been called on the validated table.
C8_PipelineGate ==
    /\ (v # NoRec /\ v.errors # <<>>) =>
          /\ hrPc = "stopped"
          /\ result_df = None
          /\ hr_report = NoRec
          /\ ~CalledAny({"predict_attrition", "generate_comment", "build_pdf_attrition"})
    /\ (v # NoRec /\ v.errors = <<>>) =>
          /\ hrPc \in {"validated", "predicted", "raised", "bucketed", "rendered"}
          /\ hrPc = "validated" => PredictOutcomes(hr_df) # {}
          /\ hrPc # "validated" => CalledAny({"predict_attrition"})
          /\ hrPc \in {"predicted", "bucketed", "rendered"} =>
                {result_df[i].row : i \in DOMAIN result_df} = DOMAIN hr_df.rows
    /\ (v2 # NoRec /\ v2.errors # <<>>) =>
          /\ attPc = "stopped"
          /\ anomalies = None
          /\ overview_fig = None
          /\ att_report = NoRec
          /\ ~CalledAny({"detect_attendance_anomalies", "build_pdf_attendance"})
    /\ (v2 # NoRec /\ v2.errors = <<>>) =>
          /\ attPc \in {"detect", "detected", "rendered"}
          /\ attPc # "detect" =>
                /\ CalledAny({"detect_attendance_anomalies"})
                /\ attError = None
                /\ anomalies =
                      detect_attendance_anomalies(
                          att_df, att_z_thr, att_long_thr, att_streak_thr).anomalies

\* tab1 ran to its end although the validator warned, and tab2 was stopped by
\* an error
C8_Witness ==
    /\ hrPc = "rendered"
    /\ v.errors = <<>>
    /\ v.warnings # <<>>
    /\ attPc = "stopped"
    /\ v2.errors # <<>>

-----------------------------------------------------------------------------
(* Paid-leave rates *)

\* the numbers of the uploaded paid-leave column
PtoNumbers == {hr_up.rows[i]["pto_rate"].n :
                  i \in {j \in DOMAIN hr_up.rows : IsNum(hr_up.rows[j]["pto_rate"])}}

\* the original statement of C9, read on the numbers of the column: they are
\* all multiplied by 100 when their maximum is <= 1.0 and all unchanged when it
\* is > 1.0.
C9_ScaleWheneverMaxAtMostOne ==
    (hrPc = "normalized" /\ "pto_rate" \in hr_up.cols /\ PtoNumbers # {}) =>
       \A i \in DOMAIN hr_up.rows :
          LET in  == hr_up.rows[i]["pto_rate"]
              out == hr_df.rows[i]["pto_rate"]
          IN  IsNum(in) =>
                 IF \A x \in PtoNumbers : x <= 100
                 THEN out = Num(100 * in.n)
                 ELSE out = in

\* C9: normalize_hr_columns keeps the rows, turns every entry of the
\* paid-leave column that is no number into a missing value, multiplies every
\* number of the column by 100 when the maximum of its numbers is in
\* [0, 1.0], and leaves every number unchanged when the maximum is > 1.0 or
\* below 0.
C9_ScaleWhenMaxInUnitRange ==
    (hrPc = "normalized" /\ "pto_rate" \in hr_up.cols) =>
       /\ DOMAIN hr_df.rows = DOMAIN hr_up.rows
       /\ \A i \in DOMAIN hr_up.rows :
             LET in  == hr_up.rows[i]["pto_rate"]
                 out == hr_df.rows[i]["pto_rate"]
             IN  IF ~IsNum(in) THEN out = NaN
                 ELSE IF /\ \A x \in PtoNumbers : x <= 100
                         /\ \E x \in PtoNumbers : x >= 0
                      THEN out = Num(100 * in.n)
                      ELSE out = in

\* a column of maximum 0.5 with a negative rate and a text entry: 0.5 became
\* 50, -0.5 became -50, the text became a missing value
C9_Witness ==
    /\ hrPc = "normalized"
    /\ "pto_rate" \in hr_up.cols
    /\ \E i, j, k \in DOMAIN hr_up.rows :
          /\ hr_up.rows[i]["pto_rate"] = Num(50)
          /\ hr_df.rows[i]["pto_rate"] = Num(5000)
          /\ hr_up.rows[j]["pto_rate"] = Num(-50)
          /\ hr_df.rows[j]["pto_rate"] = Num(-5000)
          /\ hr_up.rows[k]["pto_rate"] = Str
          /\ hr_df.rows[k]["pto_rate"] = NaN

-----------------------------------------------------------------------------
(* Rule-based scores *)

\* float(row.get(col)) gives a value: the column exists and the cell is a
\* float (a number or NaN)
Available(row, col) == col \in DOMAIN row /\ row[col].k \in {"num", "nan"}

NoFeatureAvailable(row) == \A c \in Range(PREFERRED_FEATURES) : ~Available(row, c)

-----------------------------------------------------------------------------
(* The validators *)

\* the result val of a validator on df is the single missing-columns error
OnlyMissingError(val, df, required) ==
    /\ Len(val.errors) = 1
    /\ val.errors[1].kind = "missing"
    /\ Range(val.errors[1].cols) = Range(required) \ df.cols
    /\ Len(val.errors[1].cols) = Cardinality(Range(required) \ df.cols)
    /\ val.warnings = <<>>

\* C11: on a table that lacks required columns validate_hr and
\* validate_attendance return exactly one error, which names exactly the
\* missing required columns, and no warning, whatever the cells of the table.
C11_MissingShortCircuits ==
    /\ (v # NoRec /\ Range(RequiredHR) \ hr_df.cols # {}) =>
          OnlyMissingError(v, hr_df, RequiredHR)
    /\ (v2 # NoRec /\ Range(REQ) \ att_df.cols # {}) =>
          OnlyMissingError(v2, att_df, REQ)

\* an HR table without the raises column, with a repeated id and an age out of
\* range, validated
C11_Witness ==
    /\ v # NoRec
    /\ "raises" \notin hr_df.cols
    /\ "emp_id" \in hr_df.cols
    /\ "age" \in hr_df.cols
    /\ \E i, j \in DOMAIN hr_df.rows :
          /\ i < j
          /\ hr_df.rows[i]["emp_id"] = hr_df.rows[j]["emp_id"]
          /\ hr_df.rows[i]["age"] = Num(99)

SomeNull(df, required) ==
    \E i \in DOMAIN df.rows : \E c \in Range(required) : df.rows[i][c] = NaN

\* numbers of column col strictly outside lo..hi
Outside(df, col, lo, hi) ==
    {i \in DOMAIN df.rows : df.rows[i][col].k = "num"
                            /\ (df.rows[i][col].n < lo \/ df.rows[i][col].n > hi)}

\* the warnings of val are exactly one range warning, with its count, for each
\* column of cols that has numbers outside its range
RangeWarningsAre(val, df, cols, Lo(_), Hi(_)) ==
    /\ \A c \in cols :
          LET ws == {i \in DOMAIN val.warnings :
                        val.warnings[i].kind = "range" /\ val.warnings[i].col = c}
          IN  /\ Cardinality(ws) = IF Outside(df, c, Lo(c), Hi(c)) # {} THEN 1 ELSE 0
              /\ \A i \in ws :
                    val.warnings[i].n = Cardinality(Outside(df, c, Lo(c), Hi(c)))
    /\ \A i \in DOMAIN val.warnings :
          val.warnings[i].kind = "range" => val.warnings[i].col \in cols

AttLo(col) == 0

\* C12: with all required columns there, the errors list is non-empty exactly
\* when a required column has an empty cell or (attendance) a date does not
\* parse; numbers outside the inclusive range of their column and repeated
\* ids give warnings only, one per column with the count of such numbers, a
\* number on a bound not being counted.
C12_Severity ==
    /\ (v # NoRec /\ Range(RequiredHR) \subseteq hr_df.cols) =>
          /\ (v.errors # <<>>) <=> SomeNull(hr_df, RequiredHR)
          /\ \A i \in DOMAIN v.errors : v.errors[i].kind = "null"
          /\ \A i \in DOMAIN v.warnings : v.warnings[i].kind \in {"range", "dup"}
          /\ RangeWarningsAre(v, hr_df, Range(RangeColsHR), RangeLo, RangeHi)
          /\ (\E i \in DOMAIN v.warnings : v.warnings[i].kind = "dup") <=>
                (\E i, j \in DOMAIN hr_df.rows :
                    i # j /\ hr_df.rows[i]["emp_id"] = hr_df.rows[j]["emp_id"])
    /\ (v2 # NoRec /\ Range(REQ) \subseteq att_df.cols) =>
          /\ (v2.errors # <<>>) <=>
                \/ SomeNull(att_df, REQ)
                \/ \E i \in DOMAIN att_df.rows : att_df.rows[i]["date"].k # "num"
          /\ \A i \in DOMAIN v2.errors : v2.errors[i].kind \in {"null", "date"}
          /\ \A i \in DOMAIN v2.warnings : v2.warnings[i].kind = "range"
          /\ RangeWarningsAre(v2, att_df, {"work_h", "ot_h"}, AttLo, RangeHiAtt)

\* a validated HR table with an age on its upper bound 80 and another beyond
\* it, a repeated id, and no error
C12_Witness ==
    /\ v # NoRec
    /\ Range(RequiredHR) \subseteq hr_df.cols
    /\ v.errors = <<>>
    /\ \E i \in DOMAIN v.warnings : v.warnings[i] = RangeWarning("age", 1)
    /\ \E i \in DOMAIN v.warnings : v.warnings[i].kind = "dup"
    /\ \E i \in DOMAIN hr_df.rows : hr_df.rows[i]["age"] = Num(80)

\* C13: column col matches required field req in pass k. alias says what
\* pass 2 asks of a normalized column name and a normalized alias
PassMatch(k, col, req, domain, alias(_, _)) ==
    LET ncol == _normalize_name(col)
        syns == SynonymsOf(domain, req)
    IN  CASE k = 1 -> ncol = _normalize_name(req)
          [] k = 2 -> \E a \in DOMAIN syns : alias(ncol, _normalize_name(syns[a]))
          [] k = 3 -> Contains(_normalize_name(req), ncol)

Suggested(req) ==
    IF \E i \in DOMAIN sug.mapping : sug.mapping[i][1] = req
    THEN sug.mapping[CHOOSE i \in DOMAIN sug.mapping : sug.mapping[i][1] = req][2]
    ELSE NoHit

\* each required field is absent when no pass matches, and otherwise mapped
\* to the first actual column that matches in the first pass that has a match
ResolvedByPasses(alias(_, _)) ==
    \A r \in DOMAIN sug.required :
        LET req    == sug.required[r]
            cols   == sug.actual_columns
            m(k, i) == PassMatch(k, cols[i], req, sug.domain, alias)
            passes == {k \in 1..3 : \E i \in DOMAIN cols : m(k, i)}
        IN  IF passes = {}
            THEN Suggested(req) = NoHit
            ELSE LET k == CHOOSE x \in passes : \A y \in passes : x <= y
                 IN  \E i \in DOMAIN cols :
                        /\ Suggested(req) = cols[i]
                        /\ m(k, i)
                        /\ \A j \in 1..(i - 1) : ~m(k, j)

AliasIs(ncol, nsyn) == ncol = nsyn
AliasIsOrContained(ncol, nsyn) == ncol = nsyn \/ Contains(nsyn, ncol)

\* C13 as stated: after suggest_column_mapping every required field is
\* resolved by three passes in order (exact name; a column whose normalized
\* name IS an alias; a column containing the required name), first column
\* winning inside a pass; absent exactly when no pass matches; every mapped
\* value is an actual column.
C13_ThreePasses ==
    (sug # NoRec /\ sug.pc = "done") =>
        /\ ResolvedByPasses(AliasIs)
        /\ \A i \in DOMAIN sug.mapping : sug.mapping[i][2] \in Range(sug.actual_columns)

\* C13 amended: the same three passes, the second one taking a column whose
\* normalized name equals OR CONTAINS a normalized alias of the field.
C13_ThreePassesAliasContained ==
    (sug # NoRec /\ sug.pc = "done") =>
        /\ ResolvedByPasses(AliasIsOrContained)
        /\ \A i \in DOMAIN sug.mapping : sug.mapping[i][2] \in Range(sug.actual_columns)

\* suggest_column_mapping has run on columns of which one is mapped only
\* because it contains an alias, one is mapped by its exact name or by the
\* third pass, and a required field is left out
C13_Witness ==
    /\ sug # NoRec
    /\ sug.pc = "done"
    /\ \E r \in DOMAIN sug.required : \E i \in DOMAIN sug.actual_columns :
          /\ Suggested(sug.required[r]) = sug.actual_columns[i]
          /\ ~PassMatch(1, sug.actual_columns[i], sug.required[r], sug.domain, AliasIs)
          /\ ~PassMatch(2, sug.actual_columns[i], sug.required[r], sug.domain, AliasIs)
          /\ PassMatch(2, sug.actual_columns[i], sug.required[r], sug.domain,
                       AliasIsOrContained)
    /\ \E r \in DOMAIN sug.required : \E i \in DOMAIN sug.actual_columns :
          /\ Suggested(sug.required[r]) = sug.actual_columns[i]
          /\ ~PassMatch(2, sug.actual_columns[i], sug.required[r], sug.domain,
                        AliasIsOrContained)
    /\ \E r \in DOMAIN sug.required : Suggested(sug.required[r]) = NoHit

\* C20: suggest_column_mapping maps no two required fields to one actual
\* column, so apply_column_mapping on the suggestion gives every suggested
\* field its column and keeps the number of columns.
C20_Injective ==
    (sug # NoRec /\ sug.pc = "done") =>
        LET df  == [cols |-> Range(sug.actual_columns), rows |-> <<>>]
            out == apply_column_mapping(df, sug.mapping)
        IN  /\ \A i, j \in DOMAIN sug.mapping :
                  i # j => sug.mapping[i][2] # sug.mapping[j][2]
            /\ \A i \in DOMAIN sug.mapping : sug.mapping[i][1] \in out.cols
            /\ Cardinality(out.cols) = Cardinality(df.cols)

\* C15: the results of the calls made so far, as pairs <<string form of the
\* identifier, pseudonym>>
Pseudonyms ==
    {<<astype_str(anon.series)[i], anon.out[i]>> : i \in DOMAIN anon.out}
    \cup {<<astype_str(anon.series)[i], anon.again[i]>> : i \in DOMAIN anon.again}
    \cup {<<astype_str(anon.other)[i], anon.out_other[i]>> : i \in DOMAIN anon.out_other}

HexDigits == {"0", "1", "2", "3", "4", "5", "6", "7", "8", "9", "a", "b", "c", "d", "e", "f"}

\* same string form and salt give the same pseudonym in every call and every
\* series; a pseudonym is the prefix followed by n hex characters; the input
\* series is as it was
AnonymizeIs(n) ==
    /\ \A p, q \in Pseudonyms : p[1] = q[1] => p[2] = q[2]
    /\ \A p \in Pseudonyms :
          /\ Len(p[2]) = Len(anon.prefix) + n
          /\ SubSeq(p[2], 1, Len(anon.prefix)) = anon.prefix
          /\ \A k \in (Len(anon.prefix) + 1)..Len(p[2]) : p[2][k] \in HexDigits
    /\ anon.series = anon.before

\* C15 as stated: anonymize_ids is deterministic and element-wise, each
\* pseudonym is the prefix followed by a hex string of length max(4, length),
\* and the input series is not modified.
C15_HexOfLengthMax4 ==
    anon # NoRec =>
        AnonymizeIs(IF anon.length > 4 THEN anon.length ELSE 4)

\* C15 amended: the hex string has length min(64, max(4, length)), a SHA-256
\* digest having 64 hex characters.
C15_HexOfLengthUpTo64 ==
    anon # NoRec =>
        AnonymizeIs(IF anon.length > 64 THEN 64
                    ELSE IF anon.length > 4 THEN anon.length ELSE 4)

\* the three calls are made, the two series share an identifier at different
\* positions among different neighbours, and the length asked for is above 4
C15_Witness ==
    /\ anon # NoRec
    /\ anon.done = {"first", "again", "other"}
    /\ anon.length > 4
    /\ Len(anon.series) = 2
    /\ anon.series # anon.other
    /\ astype_str(anon.series)[2] = astype_str(anon.other)[1]
    /\ astype_str(anon.series)[1] # astype_str(anon.series)[2]
    /\ anon.out[2] = anon.out_other[1]
    /\ anon.out[1] # anon.out[2]

\* C16: generate_comment returns the rule-based summary of its target when
\* the key is unset and when the external call fails (import, request,
\* response without a choice); no failure of the external generator leaves the
\* function as an exception; with the key unset the external generator is not
\* invoked.
C16_FallbackOnFailure ==
    (comment # NoRec /\ comment.pc = "done") =>
        /\ (api_key = "" \/ comment.out.ext \in Failures)
              => comment.out.text = rule_based(comment.dataframe, comment.target)
        /\ ~comment.out.raised
        /\ api_key = "" => ~comment.out.invoked

\* the key is set, the request failed and the comment of a table with rows
\* is the rule-based one
C16_Witness ==
    /\ comment # NoRec
    /\ comment.pc = "done"
    /\ api_key # ""
    /\ comment.out.ext = "network error"
    /\ comment.out.invoked
    /\ Len(comment.dataframe) > 0
    /\ comment.out.text = rule_based(comment.dataframe, comment.target)

\* C14: a pseudonym cell: the prefix followed by eight hex characters
IsPseudonym(c) ==
    /\ c.k = "str"
    /\ "text" \in DOMAIN c
    /\ Len(c.text) = Len(DefaultPrefix) + DefaultLength
    /\ SubSeq(c.text, 1, Len(DefaultPrefix)) = DefaultPrefix
    /\ \A k \in (Len(DefaultPrefix) + 1)..Len(c.text) : c.text[k] \in HexDigits

\* table shows the rows of df, in the same order, with every field but the
\* identifier as it is in df; the identifier is a pseudonym when the checkbox
\* is on and the real one (ids) when it is off
Shows(table, df, ids) ==
    /\ Len(table) = Len(df)
    /\ \A i \in DOMAIN df :
          /\ \A f \in DOMAIN df[i] \ {"emp_id"} : table[i][f] = df[i][f]
          /\ IF use_anonymize THEN IsPseudonym(table[i].emp_id)
             ELSE table[i].emp_id = ids[i]

\* the result table of tab1 as the estimator and the sliders give it, whatever
\* the checkbox
ResultsOfRun ==
    {[i \in DOMAIN r |-> [r[i] EXCEPT !.tier = cut(r[i].prob, eff.med, eff.high)]] :
        r \in {predict_attrition(hr_df, out.proba) :
                  out \in {o \in PredictOutcomes(hr_df) : ~o.raised}}}

\* C14: after each tab has rendered, the displayed table, the CSV, the Excel
\* sheet and the PDF listing carry pseudonyms when the checkbox is on (real
\* identifiers when it is off) and nothing else differs from the result
\* table; the result table keeps the identifiers of the upload; result
\* table, anomalies and counts are those computed without regard to the
\* checkbox.
C14_AnonymizeOnlyOnDisplay ==
    /\ hrPc = "rendered" =>
          /\ \A t \in {hr_report.table, hr_report.csv, hr_report.xlsx, hr_report.pdf.listing} :
                Shows(t, result_df, ResultIds(result_df))
          /\ \A i \in DOMAIN result_df :
                \E j \in DOMAIN hr_df.rows : result_df[i].emp_id = hr_df.rows[j]["emp_id"]
          /\ result_df \in ResultsOfRun
          /\ hr_report.high_cnt = CountAtLeast(result_df, eff.high)
          /\ hr_report.med_cnt = CountBetween(result_df, eff.med, eff.high)
          /\ hr_report.comment = _rule_based_attrition(result_df)
    /\ attPc = "rendered" =>
          /\ \A t \in {att_report.table, att_report.csv, att_report.xlsx,
                       att_report.pdf.listing} :
                Shows(t, anomalies, [i \in DOMAIN anomalies |-> anomalies[i].emp_id])
          /\ anomalies = detect_attendance_anomalies(att_df, att_z_thr, att_long_thr,
                                                     att_streak_thr).anomalies
          /\ att_report.total_anom = Len(anomalies)
          /\ att_report.long_cnt = CountIf(anomalies, LAMBDA r : r.flag_long)
          /\ att_report.streak_cnt = CountIf(anomalies, LAMBDA r : r.flag_streak)
          /\ att_report.z_cnt = CountIf(anomalies, LAMBDA r : r.flag_z)
          /\ att_report.comment = _rule_based_attendance(anomalies)

\* both tabs rendered rows with the checkbox on
C14_Witness ==
    /\ use_anonymize
    /\ hrPc = "rendered"
    /\ attPc = "rendered"
    /\ Len(result_df) >= 2
    /\ Len(anomalies) >= 1
    /\ IsPseudonym(hr_report.table[1].emp_id)
    /\ IsPseudonym(hr_report.pdf.listing[2].emp_id)
    /\ IsPseudonym(att_report.csv[1].emp_id)
    /\ result_df[1].emp_id \in {Num(1), Num(2)}

\* C19: the number of result rows whose tier is t
TierCount(t) == CountIf(result_df, LAMBDA r : r.tier = t)

\* C19: after tab1 has rendered, the KPI High count, the alert count, the PDF
\* counts and the counts of the rule-based comment equal the number of result
\* rows whose tier is High (Medium) under the effective thresholds.
C19_CountsAgreeWithTiers ==
    hrPc = "rendered" =>
        /\ hr_report.high_cnt = TierCount("High")
        /\ hr_report.alert_cnt = TierCount("High")
        /\ hr_report.alert = (TierCount("High") > 0)
        /\ hr_report.pdf.high = TierCount("High")
        /\ hr_report.comment.high = TierCount("High")
        /\ hr_report.med_cnt = TierCount("Medium")
        /\ hr_report.pdf.med = TierCount("Medium")
        /\ hr_report.comment.med = TierCount("Medium")

\* C17: the probability of the result row computed from input row i
ProbOfRow(i) == (CHOOSE r \in Range(result_df) : r.row = i).prob.n

\* the features in which the two input rows differ
Differing == {f \in Range(PREFERRED_FEATURES) : hr_df.rows[1][f] # hr_df.rows[2][f]}

\* the range of values on which the normalized value of a feature is in 0..1
ClampLo(f) == CASE f = "age" -> 20 [] f = "rating" -> 1 [] OTHER -> 0
ClampHi(f) ==
    CASE f = "tenure" -> 10 [] f = "age" -> 50 [] f = "avg_ot_h" -> 60
      [] f = "pto_rate" -> 10000 [] f = "rating" -> 5 [] f = "raises" -> 5
      [] f = "moves" -> 3

\* C17: when two rows differ in one feature only, the row with the larger
\* overtime or transfer count has no smaller rule-based probability, the row
\* with the larger tenure, age, paid-leave rate, rating or raise count has no
\* larger one, and two values on the same side outside the clamp range give
\* the same probability.
C17_MonotoneAndClamped ==
    (hrPc = "predicted" /\ Len(hr_df.rows) = 2 /\ Cardinality(Differing) = 1) =>
        LET f  == CHOOSE g \in Differing : TRUE
            lo == IF hr_df.rows[1][f].n < hr_df.rows[2][f].n THEN 1 ELSE 2
            a  == hr_df.rows[lo][f].n
            b  == hr_df.rows[3 - lo][f].n
        IN  /\ f \in {"avg_ot_h", "moves"} => ProbOfRow(lo) <= ProbOfRow(3 - lo)
            /\ f \notin {"avg_ot_h", "moves"} => ProbOfRow(lo) >= ProbOfRow(3 - lo)
            /\ (b <= ClampLo(f) \/ a >= ClampHi(f)) => ProbOfRow(lo) = ProbOfRow(3 - lo)

\* scored: two rows that differ in tenure inside the clamp range, the longer
\* tenure with the strictly smaller probability
C17_Witness ==
    /\ hrPc = "predicted"
    /\ Len(hr_df.rows) = 2
    /\ Differing = {"tenure"}
    /\ hr_df.rows[1]["tenure"] = Num(0)
    /\ hr_df.rows[2]["tenure"] = Num(5)
    /\ ProbOfRow(1) > ProbOfRow(2)

\* C18: once predict_attrition has returned, the result has exactly one row
\* for each input row, and each result row carries the identifier and the
\* reference columns of the input row whose probability it carries.
C18_OneResultRowPerInputRow ==
    hrPc \in {"predicted", "bucketed", "rendered"} =>
        /\ Len(result_df) = Len(hr_df.rows)
        /\ \A i \in DOMAIN hr_df.rows :
              Cardinality({k \in DOMAIN result_df : result_df[k].row = i}) = 1
        /\ \A k \in DOMAIN result_df :
              /\ result_df[k].emp_id = hr_df.rows[result_df[k].row]["emp_id"]
              /\ \A c \in DOMAIN result_df[k].refs :
                    result_df[k].refs[c] = hr_df.rows[result_df[k].row][c]

\* C21: the weighted sum of input row i, in units of 1/6000, lies in
\* -0.70..0.26, and the probability the result carries for it is a number
\* strictly between 10 % and 70 % whose tier is not High
RowBounded(i) ==
    LET contributions == Contributions(hr_df.rows[i])
        res == {k \in DOMAIN result_df : result_df[k].row = i}
    IN  /\ \A c \in DOMAIN contributions : IsNum(contributions[c])
        /\ LET x == SeqSum([c \in DOMAIN contributions |->
                               IF IsNum(contributions[c]) THEN contributions[c].n ELSE 0])
           IN  -70 * UnitsPerHundredth <= x /\ x <= 26 * UnitsPerHundredth
        /\ \A k \in res :
              /\ IsNum(result_df[k].prob)
              /\ 100 < result_df[k].prob.n
              /\ result_df[k].prob.n < 700
              /\ result_df[k].tier # "High"

\* the rule-based estimator has scored the table
RuleScored == hrPc = "predicted" /\ meta # NoRec /\ meta.model = "Rule-Based"

\* C21: in rule-based mode, whatever the feature values, the weighted sum of
\* every row lies in [-0.70, +0.26], its probability is strictly between 10 %
\* and 70 %, and with the default cut points (40, 70) its tier is not High.
C21_RuleBasedBounded ==
    RuleScored => \A i \in DOMAIN hr_df.rows : RowBounded(i)

\* the same for the rows all of whose feature cells are numbers or text
C21_BoundedWithoutEmptyCells ==
    RuleScored =>
        \A i \in DOMAIN hr_df.rows :
            (\A c \in DOMAIN hr_df.rows[i] : ~isna(hr_df.rows[i][c])) => RowBounded(i)

====
